---- MODULE Spec2Model ----
(***************************************************************************)
(* A model of the jsonpatch package: the lazily parsed Node, structural    *)
(* equality, the patch engine (Node.Patch and the six operations), the     *)
(* diff engine (Node.Diff with its path collector), RFC 6901 escaping, and *)
(* the query engine (FindChildren) as the table of TestFindChildren holds  *)
(* it to behave.                                                           *)
(*                                                                         *)
(* Strings (object keys, pointer tokens, pointers, scalar literals) are    *)
(* sequences of one-character strings, so that splitting, escaping and     *)
(* integer parsing are computed and not assumed.  A JSON text is kept as   *)
(* its syntax tree (the tokenizer is outside the package); a Node is a raw *)
(* text until intoContainer classifies it, exactly as in the package.      *)
(* A Go panic (nil dereference, failed type assertion) is an outcome of    *)
(* its own, "panic", distinct from a returned error.                       *)
(***************************************************************************)
EXTENDS Integers, Sequences, FiniteSets, TLC

(***************************************************************************)
(* Bounds of the model.                                                    *)
(***************************************************************************)
\* longest key string of the escaping round trip
MaxKeyLen == 3
\* longest array of the generated documents
MaxAryLen == 3
\* most operations of a generated patch
MaxOps == 2
\* the positive AccumulatedCopySizeLimit the generated options use
CopyLimit == 4

(***************************************************************************)
(* A local variable: v is computed once, where the code assigns it, and    *)
(* F is the code that follows the assignment.                              *)
(***************************************************************************)
With(v, F(_)) == F(v)

(***************************************************************************)
(* Strings.                                                                *)
(***************************************************************************)
Digits == <<"0", "1", "2", "3", "4", "5", "6", "7", "8", "9">>

IsDigit(ch) == \E d \in 1..10 : Digits[d] = ch

DigitVal(ch) == (CHOOSE d \in 1..10 : Digits[d] = ch) - 1

\* strconv.Itoa for the integers the model meets
RECURSIVE Itoa(_)
Itoa(i) ==
  IF i < 0 THEN <<"-">> \o Itoa(0 - i)
  ELSE IF i < 10 THEN <<Digits[i + 1]>>
  ELSE Itoa(i \div 10) \o <<Digits[(i % 10) + 1]>>

RECURSIVE DigitsVal(_)
DigitsVal(s) ==
  IF s = <<>> THEN 0
  ELSE DigitsVal(SubSeq(s, 1, Len(s) - 1)) * 10 + DigitVal(s[Len(s)])

\* strconv.Atoi: an optional sign, then one or more decimal digits
Atoi(s) ==
  LET body == IF s # <<>> /\ s[1] \in {"-", "+"} THEN Tail(s) ELSE s
      neg == s # <<>> /\ s[1] = "-"
  IN IF body = <<>> \/ \E i \in 1..Len(body) : ~IsDigit(body[i])
     THEN [ok |-> FALSE, v |-> 0]
     ELSE [ok |-> TRUE, v |-> IF neg THEN 0 - DigitsVal(body) ELSE DigitsVal(body)]

\* strings.Split(path, "/")
RECURSIVE Split(_)
Split(s) ==
  IF \A i \in 1..Len(s) : s[i] # "/" THEN <<s>>
  ELSE LET i == CHOOSE j \in 1..Len(s) :
                  s[j] = "/" /\ \A h \in 1..(j - 1) : s[h] # "/"
       IN <<SubSeq(s, 1, i - 1)>> \o Split(SubSeq(s, i + 1, Len(s)))

\* strings.LastIndex(s, "/"), 0-based, -1 when there is none
LastIndex(s) ==
  IF \A i \in 1..Len(s) : s[i] # "/" THEN -1
  ELSE (CHOOSE j \in 1..Len(s) :
          s[j] = "/" /\ \A h \in (j + 1)..Len(s) : s[h] # "/") - 1

(***************************************************************************)
(* RFC 6901 escaping: strings.NewReplacer scans once from the left and     *)
(* never rescans what it has written.                                      *)
(***************************************************************************)
RECURSIVE rfc6901Decoder(_)
rfc6901Decoder(k) ==
  IF k = <<>> THEN <<>>
  ELSE IF Len(k) >= 2 /\ k[1] = "~" /\ k[2] = "1"
  THEN <<"/">> \o rfc6901Decoder(SubSeq(k, 3, Len(k)))
  ELSE IF Len(k) >= 2 /\ k[1] = "~" /\ k[2] = "0"
  THEN <<"~">> \o rfc6901Decoder(SubSeq(k, 3, Len(k)))
  ELSE <<k[1]>> \o rfc6901Decoder(Tail(k))

RECURSIVE rfc6901Encoder(_)
rfc6901Encoder(k) ==
  IF k = <<>> THEN <<>>
  ELSE IF k[1] = "/" THEN <<"~", "1">> \o rfc6901Encoder(Tail(k))
  ELSE IF k[1] = "~" THEN <<"~", "0">> \o rfc6901Encoder(Tail(k))
  ELSE <<k[1]>> \o rfc6901Encoder(Tail(k))

\* a decoder that rewrites the whole token twice, "~0" first
decodePatchKeyTwoPass(k) ==
  LET RECURSIVE Pass(_, _, _)
      Pass(s, old, new) ==
        IF Len(s) >= 2 /\ s[1] = "~" /\ s[2] = old
        THEN <<new>> \o Pass(SubSeq(s, 3, Len(s)), old, new)
        ELSE IF s = <<>> THEN <<>>
        ELSE <<s[1]>> \o Pass(Tail(s), old, new)
  IN Pass(Pass(k, "0", "~"), "1", "/")

decodePatchKey(k) == rfc6901Decoder(k)

\* an encoder that leaves the key as it is
encodePatchKeyPlain(k) == k

encodePatchKey(k) == rfc6901Encoder(k)

(***************************************************************************)
(* JSON texts, as syntax trees.  A literal keeps its bytes; an object      *)
(* keeps its members in text order (duplicate keys included).              *)
(***************************************************************************)
Lit(s) == [t |-> "lit", s |-> s, m |-> <<>>]

Arr(els) == [t |-> "arr", s |-> <<>>, m |-> els]

Obj(mem) == [t |-> "obj", s |-> <<>>, m |-> mem]

Member(k, v) == [k |-> k, v |-> v]

nullLit == <<"n", "u", "l", "l">>

\* a nil or empty json.RawMessage (an operation without "value")
NoValue == Lit(<<>>)

isNullRaw(data) == data.t = "lit" /\ (data.s = <<>> \/ data.s = nullLit)

checkWhich(buf) ==
  IF buf.t = "arr" THEN "eAry" ELSE IF buf.t = "obj" THEN "eDoc" ELSE "eOther"

\* structural equality of two texts: objects by key set and values, arrays
\* by length and position
JKeys(j) == {j.m[x].k : x \in 1..Len(j.m)}

\* the value of key k (the last member of that name)
JVal(j, k) ==
  j.m[CHOOSE x \in 1..Len(j.m) :
        j.m[x].k = k /\ \A h \in (x + 1)..Len(j.m) : j.m[h].k # k].v

RECURSIVE JEq(_, _)
JEq(a, b) ==
  IF a.t # b.t THEN FALSE
  ELSE IF a.t = "lit" THEN a.s = b.s
  ELSE IF a.t = "arr"
  THEN Len(a.m) = Len(b.m) /\ \A x \in 1..Len(a.m) : JEq(a.m[x], b.m[x])
  ELSE JKeys(a) = JKeys(b) /\ \A k \in JKeys(a) : JEq(JVal(a, k), JVal(b, k))

(***************************************************************************)
(* Node.  which is eRaw until intoContainer classifies the node; a nil     *)
(* *Node (what encoding/json stores for a null member) is NilNode.         *)
(***************************************************************************)
NoRaw == Lit(<<"-">>)

NilNode == [which |-> "nil", raw |-> NoRaw, keys |-> <<>>, obj |-> <<>>, ary |-> <<>>]

RawNode(raw) == [which |-> "eRaw", raw |-> raw, keys |-> <<>>, obj |-> <<>>, ary |-> <<>>]

DocNode(keys, obj) == [which |-> "eDoc", raw |-> NoRaw, keys |-> keys, obj |-> obj, ary |-> <<>>]

AryNode(ary) == [which |-> "eAry", raw |-> NoRaw, keys |-> <<>>, obj |-> <<>>, ary |-> ary]

NewNode(doc) == RawNode(IF doc.t = "lit" /\ doc.s = <<>> THEN Lit(nullLit) ELSE doc)

\* what json.Unmarshal stores for one member: nil for the literal null,
\* otherwise a Node filled by Node.UnmarshalJSON
UnmarshalJSON(data) == IF data = Lit(nullLit) THEN NilNode ELSE RawNode(data)

\* Node.UnmarshalJSON called on a node there is: the node takes the text and
\* is raw again (doc and ary stay as they are until the node is classified)
Node_UnmarshalJSON(n, data) == [n EXCEPT !.raw = data, !.which = "eRaw"]

\* partialDoc.UnmarshalJSON: the map keeps the last value of a key, the key
\* list every key token in text order
partialDoc_UnmarshalJSON(mem) ==
  LET ks == {mem[i].k : i \in 1..Len(mem)}
      last(k) == CHOOSE i \in 1..Len(mem) :
                   mem[i].k = k /\ \A j \in (i + 1)..Len(mem) : mem[j].k # k
  IN DocNode([i \in 1..Len(mem) |-> mem[i].k],
             [k \in ks |-> UnmarshalJSON(mem[last(k)].v)])

\* the node after n.intoContainer(); the call returns a container exactly
\* when the node is then eDoc or eAry, and ErrInvalid otherwise
intoContainer(n) ==
  IF n.which # "eRaw" THEN n
  ELSE IF checkWhich(n.raw) = "eDoc" THEN partialDoc_UnmarshalJSON(n.raw.m)
  ELSE IF checkWhich(n.raw) = "eAry"
  THEN AryNode([i \in 1..Len(n.raw.m) |-> UnmarshalJSON(n.raw.m[i])])
  ELSE [n EXCEPT !.which = "eOther"]

IsContainer(n) == n.which \in {"eDoc", "eAry"}

\* Node.isNull on a non-nil node (a container's raw text is never null)
isNull(n) == n.which \in {"eRaw", "eOther"} /\ isNullRaw(n.raw)

RECURSIVE MarshalJSON(_)
MarshalJSON(n) ==
  IF n = NilNode THEN Lit(nullLit)
  ELSE With(intoContainer(n), LAMBDA c :
          IF c.which = "eOther" THEN c.raw
          ELSE IF c.which = "eDoc"
          THEN Obj([i \in 1..Len(c.keys) |->
                      Member(c.keys[i],
                             IF c.keys[i] \in DOMAIN c.obj
                             THEN MarshalJSON(c.obj[c.keys[i]])
                             ELSE Lit(nullLit))])
          ELSE Arr([i \in 1..Len(c.ary) |-> MarshalJSON(c.ary[i])]))

RECURSIVE SumLen(_, _)
\* len of the compact encoding of a JSON text
RECURSIVE EncLen(_)
EncLen(j) ==
  IF j.t = "lit" THEN Len(j.s)
  ELSE IF j.m = <<>> THEN 2
  ELSE 2 + (Len(j.m) - 1) + SumLen(j, 1)

SumLen(j, i) ==
  IF i > Len(j.m) THEN 0
  ELSE (IF j.t = "obj" THEN Len(j.m[i].k) + 3 + EncLen(j.m[i].v)
        ELSE EncLen(j.m[i]))
       + SumLen(j, i + 1)

(***************************************************************************)
(* Node.Equal.  The result is the set of outcomes a run can have: Go       *)
(* ranges over a map in an unspecified order, and the first member that    *)
(* differs (false) or dereferences a nil *Node (panic) ends the call.      *)
(***************************************************************************)
BoolOf(b) == IF b THEN "true" ELSE "false"

RECURSIVE Equal(_, _)
RECURSIVE EqualAry(_, _, _)
EqualAry(n, o, i) ==
  IF i > Len(n.ary) THEN {"true"}
  ELSE With(Equal(n.ary[i], o.ary[i]), LAMBDA s :
          (s \cap {"false", "panic"})
          \cup (IF "true" \in s THEN EqualAry(n, o, i + 1) ELSE {}))

\* one iteration of the loop over n.doc.obj, for key k
EqualMember(n, o, k) ==
  IF k \notin DOMAIN o.obj THEN {"false"}
  ELSE IF (n.obj[k] = NilNode) # (o.obj[k] = NilNode) THEN {"false"}
  ELSE IF n.obj[k] = NilNode THEN {"true"}
  ELSE Equal(n.obj[k], o.obj[k])

EqualDoc(n, o) ==
  With([k \in DOMAIN n.obj |-> EqualMember(n, o, k)], LAMBDA S :
    {r \in {"false", "panic"} : \E k \in DOMAIN n.obj : r \in S[k]}
    \cup (IF \A k \in DOMAIN n.obj : "true" \in S[k] THEN {"true"} ELSE {}))

Equal(n, o) ==
  IF n = NilNode THEN {"panic"}
  ELSE With(intoContainer(n), LAMBDA nn :
          IF nn.which = "eOther"
          THEN IF o = NilNode THEN {"panic"}
               ELSE IF IsContainer(o) THEN {"false"}
               ELSE {BoolOf(nn.raw = o.raw)}
          ELSE IF o = NilNode THEN {"panic"}
          ELSE With(intoContainer(o), LAMBDA oo :
                  IF nn.which # oo.which THEN {"false"}
                  ELSE IF nn.which = "eDoc"
                  THEN IF Cardinality(DOMAIN nn.obj) # Cardinality(DOMAIN oo.obj)
                       THEN {"false"}
                       ELSE EqualDoc(nn, oo)
                  ELSE IF Len(nn.ary) # Len(oo.ary) THEN {"false"}
                  ELSE EqualAry(nn, oo, 1)))

(***************************************************************************)
(* The diff engine.  An Operation is a record; the collector holds the     *)
(* current path and the patch built so far.                                *)
(***************************************************************************)
Operation(op, path, from, value) ==
  [op |-> op, path |-> path, from |-> from, value |-> value]

NewCollector == [path |-> <<>>, patch |-> <<>>]

withPathToken(c, token) ==
  IF token = <<>> THEN c.path ELSE c.path \o <<"/">> \o token

pushPathToken(c, token) == [c EXCEPT !.path = withPathToken(c, token)]

popPathToken(c) ==
  LET i == LastIndex(c.path)
  IN IF i >= 0 THEN [c EXCEPT !.path = SubSeq(c.path, 1, i)] ELSE c

replaceOp(c, token, node) ==
  [c EXCEPT !.patch = Append(c.patch,
     Operation("replace", withPathToken(c, token), <<>>, MarshalJSON(node)))]

addOp(c, token, node) ==
  [c EXCEPT !.patch = Append(c.patch,
     Operation("add", withPathToken(c, token), <<>>, MarshalJSON(node)))]

removeOp(c, token) ==
  [c EXCEPT !.patch = Append(c.patch,
     Operation("remove", withPathToken(c, token), <<>>, NoValue))]

\* one outcome of a diff call: it returned (and left the collector c), or
\* it panicked
Returned(c) == [st |-> "ok", c |-> c]

Panicked(c) == [st |-> "panic", c |-> c]

\* the first loop of the object branch: a remove for every source key
\* that the target lacks, in source key order
RECURSIVE diffRemovedKeys(_, _, _, _)
diffRemovedKeys(n, target, i, c) ==
  IF i > Len(n.keys) THEN c
  ELSE diffRemovedKeys(n, target, i + 1,
         IF n.keys[i] \notin DOMAIN target.obj
         THEN removeOp(c, encodePatchKey(n.keys[i]))
         ELSE c)

\* the last loop of the array branch: the surplus source indices,
\* from len(target.ary) up to len(n.ary)-1
RECURSIVE diffRemovedTail(_, _, _)
diffRemovedTail(i, nl, c) ==
  IF i >= nl THEN c
  ELSE diffRemovedTail(i + 1, nl, removeOp(c, Itoa(i)))

RECURSIVE diff(_, _, _, _)
RECURSIVE diffTargetKeys(_, _, _, _, _)
\* the second loop of the object branch, from the i-th target key on
diffTargetKeys(n, target, i, c, IDKey) ==
  IF i > Len(target.keys) THEN {Returned(c)}
  ELSE LET key == target.keys[i]
           tv == IF key \in DOMAIN target.obj THEN target.obj[key] ELSE NilNode
       IN IF key \in DOMAIN n.obj
          THEN UNION {IF r.st = "panic" THEN {r}
                      ELSE diffTargetKeys(n, target, i + 1, popPathToken(r.c), IDKey) :
                      r \in diff(n.obj[key], tv,
                                 pushPathToken(c, encodePatchKey(key)), IDKey)}
          ELSE diffTargetKeys(n, target, i + 1,
                              addOp(c, encodePatchKey(key), tv), IDKey)

RECURSIVE diffTargetAry(_, _, _, _, _)
\* the first loop of the array branch, from the i-th (1-based) element on
diffTargetAry(n, target, i, c, IDKey) ==
  IF i > Len(target.ary)
  THEN {Returned(diffRemovedTail(Len(target.ary), Len(n.ary), c))}
  ELSE IF i - 1 < Len(n.ary)
  THEN UNION {IF r.st = "panic" THEN {r}
              ELSE diffTargetAry(n, target, i + 1, popPathToken(r.c), IDKey) :
              r \in diff(n.ary[i], target.ary[i],
                         pushPathToken(c, Itoa(i - 1)), IDKey)}
  ELSE diffTargetAry(n, target, i + 1, addOp(c, Itoa(i - 1), target.ary[i]), IDKey)

\* the object branch once n and target are both eDoc and not Equal
\* the two loops of the object branch
diffMembers(n, target, c, IDKey) ==
  diffTargetKeys(n, target, 1, diffRemovedKeys(n, target, 1, c), IDKey)

diffDoc(n, target, c, IDKey) ==
  LET v == IF IDKey \in DOMAIN n.obj THEN n.obj[IDKey] ELSE NilNode
      tv == IF IDKey \in DOMAIN target.obj THEN target.obj[IDKey] ELSE NilNode
  IN IF IDKey = <<>> \/ (v # NilNode /\ isNull(v)) THEN diffMembers(n, target, c, IDKey)
     ELSE IF v = NilNode THEN {Panicked(c)}
     ELSE UNION {IF e = "panic" THEN {Panicked(c)}
                 ELSE IF e = "false" THEN {Returned(replaceOp(c, <<>>, target))}
                 ELSE diffMembers(n, target, c, IDKey) : e \in Equal(v, tv)}

\* Node.diff; IDKey = "" stands for opts == nil as well
diff(n, target, c, IDKey) ==
  IF n = NilNode \/ target = NilNode THEN {Returned(replaceOp(c, <<>>, target))}
  ELSE UNION {
    IF e = "panic" THEN {Panicked(c)}
    ELSE IF e = "true" THEN {Returned(c)}
    ELSE With(intoContainer(n), LAMBDA nn :
         With(IF IsContainer(nn) THEN intoContainer(target) ELSE target, LAMBDA tt :
            IF tt.which # nn.which \/ tt.which = "eOther"
            THEN {Returned(replaceOp(c, <<>>, target))}
            ELSE IF nn.which = "eDoc" THEN diffDoc(nn, tt, c, IDKey)
            ELSE diffTargetAry(nn, tt, 1, c, IDKey))) :
    e \in Equal(n, target)}

\* Diff(src, dst, opts): the outcomes, each "ok" with the patch or "panic"
Diff(src, dst, IDKey) ==
  {[st |-> r.st, patch |-> IF r.st = "ok" THEN r.c.patch ELSE <<>>] :
     r \in diff(NewNode(src), NewNode(dst), NewCollector, IDKey)}

(***************************************************************************)
(* Containers.  A container is a classified node (eDoc or eAry); each      *)
(* method returns its error ("nil" for none) and the container after the   *)
(* call.  Array indices are those of Go (0-based).                         *)
(***************************************************************************)
Options(neg, limit, allowMissing, ensure) ==
  [SupportNegativeIndices |-> neg, AccumulatedCopySizeLimit |-> limit,
   AllowMissingPathOnRemove |-> allowMissing, EnsurePathExistsOnAdd |-> ensure]

\* NewOptions() with the package-level defaults
NewOptions == Options(TRUE, 0, FALSE, FALSE)

ConOk(d) == [err |-> "nil", d |-> d]

ConErr(e, d) == [err |-> e, d |-> d]

Contains(seq, x) == \E i \in 1..Len(seq) : seq[i] = x

IndexOf(seq, x) ==
  IF Contains(seq, x)
  THEN (CHOOSE i \in 1..Len(seq) : seq[i] = x /\ \A j \in 1..(i - 1) : seq[j] # x) - 1
  ELSE -1

SetObj(obj, key, val) ==
  [k \in (DOMAIN obj) \cup {key} |-> IF k = key THEN val ELSE obj[k]]

DelObj(obj, key) == [k \in (DOMAIN obj) \ {key} |-> obj[k]]

\* a set that moves the key it overwrites to the end of the key order
partialDoc_setMoved(d, key, val) ==
  ConOk([d EXCEPT !.keys = SelectSeq(@, LAMBDA k : k # key) \o <<key>>,
                  !.obj = SetObj(@, key, val)])

partialDoc_set(d, key, val) ==
  ConOk([d EXCEPT !.keys = IF Contains(d.keys, key) THEN @ ELSE Append(@, key),
                  !.obj = SetObj(@, key, val)])

partialDoc_add(d, key, val) == partialDoc_set(d, key, val)

\* a get that answers null for a key the object does not have
partialDoc_getOrNull(d, key) ==
  [err |-> "nil",
   v |-> IF key \notin DOMAIN d.obj \/ d.obj[key] = NilNode THEN NewNode(NoValue)
         ELSE d.obj[key]]

\* get returns the member, or a fresh null node for a nil member
partialDoc_get(d, key) ==
  IF key \notin DOMAIN d.obj THEN [err |-> "ErrMissing", v |-> NilNode]
  ELSE [err |-> "nil",
        v |-> IF d.obj[key] = NilNode THEN NewNode(NoValue) ELSE d.obj[key]]

partialDoc_remove(d, key, options) ==
  IF key \notin DOMAIN d.obj
  THEN IF options.AllowMissingPathOnRemove THEN ConOk(d) ELSE ConErr("ErrMissing", d)
  ELSE LET idx == IndexOf(d.keys, key)
       IN IF idx < 0 THEN ConErr("panic", d)
          ELSE ConOk([d EXCEPT
                 !.keys = SubSeq(@, 1, idx) \o SubSeq(@, idx + 2, Len(@)),
                 !.obj = DelObj(@, key)])

partialArray_set(d, key, val, options) ==
  With(Atoi(key), LAMBDA a :
    LET sz == Len(d.ary)
        idx == IF a.v < 0 THEN a.v + sz ELSE a.v
    IN IF ~a.ok THEN ConErr("NumError", d)
       ELSE IF a.v < 0 /\ (~options.SupportNegativeIndices \/ a.v < 0 - sz)
       THEN ConErr("ErrInvalidIndex", d)
       ELSE IF idx >= sz THEN ConErr("panic", d)
       ELSE ConOk([d EXCEPT !.ary[idx + 1] = val]))

partialArray_add(d, key, val, options) ==
  With(Atoi(key), LAMBDA a :
    LET sz == Len(d.ary) + 1
        idx == IF a.v < 0 THEN a.v + sz ELSE a.v
    IN IF key = <<"-">> THEN ConOk([d EXCEPT !.ary = Append(@, val)])
       ELSE IF ~a.ok THEN ConErr("NumError", d)
       ELSE IF a.v >= sz THEN ConErr("ErrInvalidIndex", d)
       ELSE IF a.v < 0 /\ (~options.SupportNegativeIndices \/ a.v < 0 - sz)
       THEN ConErr("ErrInvalidIndex", d)
       ELSE ConOk([d EXCEPT !.ary = SubSeq(@, 1, idx) \o <<val>>
                                      \o SubSeq(@, idx + 1, Len(@))]))

\* 0-based position an index token addresses in get, or the error
partialArray_index(d, key, options) ==
  With(Atoi(key), LAMBDA a :
    LET sz == Len(d.ary)
        idx == IF a.v < 0 THEN a.v + sz ELSE a.v
    IN IF ~a.ok THEN [err |-> "NumError", i |-> 0]
       ELSE IF a.v < 0 /\ (~options.SupportNegativeIndices \/ a.v < 0 - sz)
       THEN [err |-> "ErrInvalidIndex", i |-> 0]
       ELSE IF idx >= sz THEN [err |-> "ErrInvalidIndex", i |-> 0]
       ELSE [err |-> "nil", i |-> idx])

partialArray_get(d, key, options) ==
  With(partialArray_index(d, key, options), LAMBDA r :
    IF r.err # "nil" THEN [err |-> r.err, v |-> NilNode]
    ELSE [err |-> "nil",
          v |-> IF d.ary[r.i + 1] = NilNode THEN NewNode(NoValue)
                ELSE d.ary[r.i + 1]])

\* a remove that takes the last element when the index is out of range
partialArray_removeClamped(d, key, options) ==
  With(Atoi(key), LAMBDA a :
    IF ~a.ok THEN ConErr("NumError", d)
    ELSE ConOk([d EXCEPT !.ary = SubSeq(@, 1, Len(@) - 1)]))

partialArray_remove(d, key, options) ==
  With(Atoi(key), LAMBDA a :
    LET sz == Len(d.ary)
        idx == IF a.v < 0 THEN a.v + sz ELSE a.v
    IN IF ~a.ok THEN ConErr("NumError", d)
       ELSE IF a.v >= sz
       THEN IF options.AllowMissingPathOnRemove THEN ConOk(d)
            ELSE ConErr("ErrInvalidIndex", d)
       ELSE IF a.v < 0 /\ ~options.SupportNegativeIndices
       THEN ConErr("ErrInvalidIndex", d)
       ELSE IF a.v < 0 /\ a.v < 0 - sz
       THEN IF options.AllowMissingPathOnRemove THEN ConOk(d)
            ELSE ConErr("ErrInvalidIndex", d)
       ELSE ConOk([d EXCEPT !.ary = SubSeq(@, 1, idx) \o SubSeq(@, idx + 2, Len(@))]))

\* the container interface: dispatch on the dynamic type
con_get(d, key, options) ==
  IF d.which = "eDoc" THEN partialDoc_get(d, key) ELSE partialArray_get(d, key, options)

con_set(d, key, val, options) ==
  IF d.which = "eDoc" THEN partialDoc_set(d, key, val)
  ELSE partialArray_set(d, key, val, options)

con_add(d, key, val, options) ==
  IF d.which = "eDoc" THEN partialDoc_add(d, key, val)
  ELSE partialArray_add(d, key, val, options)

con_remove(d, key, options) ==
  IF d.which = "eDoc" THEN partialDoc_remove(d, key, options)
  ELSE partialArray_remove(d, key, options)

(***************************************************************************)
(* Places in the tree.  The package holds pointers into the tree; the      *)
(* model holds the place of a container as the list of steps from the      *)
(* root, each the object key or the resolved array position.               *)
(***************************************************************************)
KeyStep(k) == [k |-> k, i |-> -1]

IdxStep(i) == [k |-> <<>>, i |-> i]

ChildAt(d, step) == IF d.which = "eDoc" THEN d.obj[step.k] ELSE d.ary[step.i + 1]

SetChildAt(d, step, val) ==
  IF d.which = "eDoc" THEN [d EXCEPT !.obj[step.k] = val]
  ELSE [d EXCEPT !.ary[step.i + 1] = val]

\* the step get(key) resolves to; only used where get has succeeded
StepOf(d, key, options) ==
  IF d.which = "eDoc" THEN KeyStep(key)
  ELSE IdxStep(partialArray_index(d, key, options).i)

RECURSIVE Deref(_, _)
Deref(root, ptr) ==
  IF ptr = <<>> THEN root ELSE Deref(ChildAt(root, ptr[1]), Tail(ptr))

RECURSIVE Store(_, _, _)
Store(root, ptr, d) ==
  IF ptr = <<>> THEN d
  ELSE SetChildAt(root, ptr[1], Store(ChildAt(root, ptr[1]), Tail(ptr), d))

\* the loop of findObject from the i-th part on, doc being the container
\* reached: whether it ends at a container, the place of that container, and
\* doc with every node the walk classified
RECURSIVE findWalk(_, _, _, _)
findWalk(doc, parts, i, options) ==
  IF i > Len(parts) THEN [ok |-> TRUE, doc |-> doc, ptr |-> <<>>]
  ELSE With(con_get(doc, decodePatchKey(parts[i]), options), LAMBDA got :
       IF got.err # "nil" THEN [ok |-> FALSE, doc |-> doc, ptr |-> <<>>]
       ELSE
         With(StepOf(doc, decodePatchKey(parts[i]), options), LAMBDA step :
         With(intoContainer(got.v), LAMBDA next :
           IF ~IsContainer(next)
           THEN [ok |-> FALSE, ptr |-> <<>>,
                 doc |-> IF ChildAt(doc, step) # NilNode
                         THEN SetChildAt(doc, step, next) ELSE doc]
           ELSE With(findWalk(next, parts, i + 1, options), LAMBDA sub :
                  [ok |-> sub.ok, ptr |-> <<step>> \o sub.ptr,
                   doc |-> SetChildAt(doc, step, sub.doc)]))))

\* findObject(pd, path): ok is FALSE where the package returns a nil
\* container; pd is the root after the walk
findObject(pd, path, options) ==
  With(Split(path), LAMBDA split :
    IF Len(split) < 2 THEN [ok |-> FALSE, pd |-> pd, ptr |-> <<>>, key |-> <<>>]
    ELSE With(findWalk(pd, SubSeq(split, 2, Len(split) - 1), 1, options), LAMBDA w :
           [ok |-> w.ok, pd |-> w.doc, ptr |-> w.ptr,
            key |-> decodePatchKey(split[Len(split)])]))

(***************************************************************************)
(* The six operations.  Each yields the set of its outcomes (only test,    *)
(* through Equal, has more than one): the error, the working document pd   *)
(* after the call, the copy counter, and whether the call made pd point at *)
(* a new container (replace of the whole document).                        *)
(***************************************************************************)
OpResult(err, pd, acc, swapped) ==
  [err |-> err, pd |-> pd, acc |-> acc, swapped |-> swapped, same |-> FALSE]

rawJSONArray == Arr(<<>>)

rawJSONObject == Obj(<<>>)

\* the loop of ensurePathExists from the pi-th part on, doc being the
\* container reached: the error and doc after the walk.  A container that
\* doc.add refused stays detached from the tree.
RECURSIVE ensureWalk(_, _, _, _)
\* the branch of ensureWalk where doc.get(part) failed: the missing
\* container is made, filled by the rest of the walk and added to doc
ensureMissing(doc, parts, pi, options) ==
  With(Atoi(parts[pi]), LAMBDA a :
  With(Atoi(parts[pi + 1]), LAMBDA b :
    LET padded ==
          IF a.ok /\ doc.which = "eAry" /\ a.v >= Len(doc.ary) + 1
          THEN [doc EXCEPT !.ary =
                  @ \o [i \in 1..(a.v - Len(doc.ary)) |-> NewNode(NoValue)]]
          ELSE doc
        isAry == b.ok \/ parts[pi + 1] = <<"-">>
        arrIndex == IF b.ok /\ b.v > 0 THEN b.v ELSE 0
        fresh == IF isAry THEN AryNode([i \in 1..arrIndex |-> NewNode(NoValue)])
                 ELSE DocNode(<<>>, <<>>)
    IN IF isAry /\ b.ok /\ b.v < 0
          /\ (~options.SupportNegativeIndices \/ b.v < -1)
       THEN ConErr("ErrInvalidIndex", padded)
       ELSE With(ensureWalk(fresh, parts, pi + 1, options), LAMBDA made :
            With(con_add(padded, parts[pi], made.d, options), LAMBDA added :
              ConErr(made.err, IF added.err = "nil" THEN added.d ELSE padded)))))

ensureWalk(doc, parts, pi, options) ==
  IF pi >= Len(parts) THEN ConOk(doc)
  ELSE
    With(con_get(doc, decodePatchKey(parts[pi]), options), LAMBDA got :
      IF got.err # "nil" THEN ensureMissing(doc, parts, pi, options)
      ELSE
        With(StepOf(doc, decodePatchKey(parts[pi]), options), LAMBDA step :
        With(intoContainer(got.v), LAMBDA next :
          IF ~IsContainer(next)
          THEN ConErr("ErrInvalid",
                      IF ChildAt(doc, step) # NilNode
                      THEN SetChildAt(doc, step, next) ELSE doc)
          ELSE With(ensureWalk(next, parts, pi + 1, options), LAMBDA sub :
                 ConErr(sub.err, SetChildAt(doc, step, sub.d))))))

ensurePathExists(pd, path, options) ==
  With(Split(path), LAMBDA split :
    IF Len(split) < 2 THEN ConOk(pd)
    ELSE ensureWalk(pd, SubSeq(split, 2, Len(split)), 1, options))

Patch_add(pd, op, acc, options) ==
  With(IF options.EnsurePathExistsOnAdd
       THEN ensurePathExists(pd, op.path, options) ELSE ConOk(pd), LAMBDA e :
    IF e.err # "nil" THEN {OpResult(e.err, e.d, acc, FALSE)}
    ELSE
      With(findObject(e.d, op.path, options), LAMBDA f :
        IF ~f.ok THEN {OpResult("ErrMissing", f.pd, acc, FALSE)}
        ELSE
          With(con_add(Deref(f.pd, f.ptr), f.key, NewNode(op.value), options),
               LAMBDA r :
            IF r.err # "nil" THEN {OpResult(r.err, f.pd, acc, FALSE)}
            ELSE {OpResult("nil", Store(f.pd, f.ptr, r.d), acc, FALSE)})))

Patch_remove(pd, op, acc, options) ==
  With(findObject(pd, op.path, options), LAMBDA f :
    IF ~f.ok
    THEN {OpResult(IF options.AllowMissingPathOnRemove THEN "nil" ELSE "ErrMissing",
                   f.pd, acc, FALSE)}
    ELSE
      With(con_remove(Deref(f.pd, f.ptr), f.key, options), LAMBDA r :
        IF r.err # "nil" THEN {OpResult(r.err, f.pd, acc, FALSE)}
        ELSE {OpResult("nil", Store(f.pd, f.ptr, r.d), acc, FALSE)}))

\* replace at a path other than ""
replaceMember(pd, op, acc, options) ==
  With(findObject(pd, op.path, options), LAMBDA f :
    IF ~f.ok THEN {OpResult("ErrMissing", f.pd, acc, FALSE)}
    ELSE
      With(Deref(f.pd, f.ptr), LAMBDA con :
        IF con_get(con, f.key, options).err # "nil"
        THEN {OpResult("ErrMissing", f.pd, acc, FALSE)}
        ELSE
          With(con_set(con, f.key, NewNode(op.value), options), LAMBDA r :
            IF r.err # "nil" THEN {OpResult(r.err, f.pd, acc, FALSE)}
            ELSE {OpResult("nil", Store(f.pd, f.ptr, r.d), acc, FALSE)})))

Patch_replace(pd, op, acc, options) ==
  IF op.path = <<>>
  THEN With(intoContainer(NewNode(op.value)), LAMBDA val :
         IF IsContainer(val) THEN {OpResult("nil", val, acc, TRUE)}
         ELSE {OpResult("impossible case", pd, acc, FALSE)})
  ELSE replaceMember(pd, op, acc, options)

\* the second half of move: the value taken out is added at op.path
moveAdd(removed, val, op, acc, options) ==
  With(findObject(removed, op.path, options), LAMBDA g :
    IF ~g.ok THEN {OpResult("ErrMissing", g.pd, acc, FALSE)}
    ELSE
      With(con_add(Deref(g.pd, g.ptr), g.key, val, options), LAMBDA a :
        IF a.err # "nil" THEN {OpResult(a.err, g.pd, acc, FALSE)}
        ELSE {OpResult("nil", Store(g.pd, g.ptr, a.d), acc, FALSE)}))

\* a move that leaves the value at from where it is
Patch_moveKeeping(pd, op, acc, options) ==
  With(findObject(pd, op.from, options), LAMBDA f :
    IF ~f.ok THEN {OpResult("ErrMissing", f.pd, acc, FALSE)}
    ELSE
      With(con_get(Deref(f.pd, f.ptr), f.key, options), LAMBDA got :
        IF got.err # "nil" THEN {OpResult(got.err, f.pd, acc, FALSE)}
        ELSE moveAdd(f.pd, got.v, op, acc, options)))

Patch_move(pd, op, acc, options) ==
  With(findObject(pd, op.from, options), LAMBDA f :
    IF ~f.ok THEN {OpResult("ErrMissing", f.pd, acc, FALSE)}
    ELSE
      With(Deref(f.pd, f.ptr), LAMBDA con :
      With(con_get(con, f.key, options), LAMBDA got :
        IF got.err # "nil" THEN {OpResult(got.err, f.pd, acc, FALSE)}
        ELSE
          With(con_remove(con, f.key, options), LAMBDA r :
            IF r.err # "nil" THEN {OpResult(r.err, f.pd, acc, FALSE)}
            ELSE moveAdd(Store(f.pd, f.ptr, r.d), got.v, op, acc, options)))))

TestOutcome(pd, acc, e) ==
  OpResult(IF e = "panic" THEN "panic" ELSE IF e = "true" THEN "nil" ELSE "not equal",
           pd, acc, FALSE)

\* test at a path other than "".  Equal classifies the nodes it visits;
\* that leaves their encoding as it was and is not recorded in pd here.
testMember(pd, op, acc, options) ==
  With(findObject(pd, op.path, options), LAMBDA f :
    IF ~f.ok THEN {OpResult("ErrMissing", f.pd, acc, FALSE)}
    ELSE
      With(con_get(Deref(f.pd, f.ptr), f.key, options), LAMBDA got :
        IF got.err \notin {"nil", "ErrMissing"}
        THEN {OpResult(got.err, f.pd, acc, FALSE)}
        ELSE IF got.v = NilNode \/ isNull(got.v)
        THEN {OpResult(IF isNullRaw(op.value) THEN "nil" ELSE "not equal",
                       f.pd, acc, FALSE)}
        ELSE IF op.value = NoValue THEN {OpResult("not equal", f.pd, acc, FALSE)}
        ELSE {TestOutcome(f.pd, acc, e) : e \in Equal(got.v, NewNode(op.value))}))

Patch_test(pd, op, acc, options) ==
  IF op.path = <<>>
  THEN {TestOutcome(pd, acc, e) : e \in Equal(pd, NewNode(op.value))}
  ELSE testMember(pd, op, acc, options)

RECURSIVE Marshalled(_)
\* a MarshalJSON that leaves the node as the raw text it wrote
MarshalledUnparsed(n) == IF n = NilNode THEN n ELSE RawNode(MarshalJSON(n))

\* the node after MarshalJSON has run over it: every node below it that is
\* not a scalar has been classified
Marshalled(n) ==
  IF n = NilNode THEN n
  ELSE With(intoContainer(n), LAMBDA c :
          IF c.which = "eDoc"
          THEN [c EXCEPT !.obj = [k \in DOMAIN c.obj |-> Marshalled(c.obj[k])]]
          ELSE IF c.which = "eAry"
          THEN [c EXCEPT !.ary = [i \in 1..Len(c.ary) |-> Marshalled(c.ary[i])]]
          ELSE c)

\* a deepCopy that reports no size
deepCopyUnsized(src) ==
  [node |-> NewNode(MarshalJSON(src)), sz |-> 0, same |-> FALSE]

\* a deepCopy that hands back the *Node it was given
deepCopyShared(src) ==
  [node |-> src, sz |-> EncLen(MarshalJSON(src)), same |-> TRUE]

\* deepCopy of a non-nil node: the copy, the length of its encoding, and
\* whether the *Node returned is the one given (NewNode allocates another)
deepCopy(src) ==
  With(MarshalJSON(src), LAMBDA a :
    [node |-> NewNode(a), sz |-> EncLen(a), same |-> FALSE])

\* pd after deepCopy has marshalled the member key of the container at ptr:
\* MarshalJSON classified the subtree of a member that is stored in the tree
afterMarshal(pd, ptr, key, options) ==
  With(Deref(pd, ptr), LAMBDA src :
  With(StepOf(src, key, options), LAMBDA fstep :
    IF ChildAt(src, fstep) = NilNode THEN pd
    ELSE Store(pd, ptr, SetChildAt(src, fstep, Marshalled(ChildAt(src, fstep))))))

\* the second half of copy: val was read at f; the target is looked up, val
\* is copied and counted, and the copy is added
copyAdd(f, val, op, acc, options) ==
  With(findObject(f.pd, op.path, options), LAMBDA g :
    IF ~g.ok THEN {OpResult("ErrMissing", g.pd, acc, FALSE)}
    ELSE
      With(deepCopy(val), LAMBDA cp :
      With(afterMarshal(g.pd, f.ptr, f.key, options), LAMBDA read :
        IF options.AccumulatedCopySizeLimit > 0
           /\ acc + cp.sz > options.AccumulatedCopySizeLimit
        THEN {OpResult("AccumulatedCopySizeError", read, acc + cp.sz, FALSE)}
        ELSE
          With(con_add(Deref(read, g.ptr), g.key, cp.node, options), LAMBDA a :
            IF a.err # "nil" THEN {OpResult(a.err, read, acc + cp.sz, FALSE)}
            ELSE {[OpResult("nil", Store(read, g.ptr, a.d), acc + cp.sz, FALSE)
                     EXCEPT !.same = cp.same]}))))

Patch_copy(pd, op, acc, options) ==
  With(findObject(pd, op.from, options), LAMBDA f :
    IF ~f.ok THEN {OpResult("ErrMissing", f.pd, acc, FALSE)}
    ELSE
      With(con_get(Deref(f.pd, f.ptr), f.key, options), LAMBDA got :
        IF got.err # "nil" THEN {OpResult(got.err, f.pd, acc, FALSE)}
        ELSE copyAdd(f, got.v, op, acc, options)))

(***************************************************************************)
(* Node.Patch as a function of the node and the patch: the set of ways the *)
(* call can end, st being "returned", "error" or "panic" and n the node    *)
(* after the call.                                                         *)
(***************************************************************************)
\* the switch on op.Op
ApplyOp(pd, op, acc, options) ==
  IF op.op = "add" THEN Patch_add(pd, op, acc, options)
  ELSE IF op.op = "remove" THEN Patch_remove(pd, op, acc, options)
  ELSE IF op.op = "replace" THEN Patch_replace(pd, op, acc, options)
  ELSE IF op.op = "move" THEN Patch_move(pd, op, acc, options)
  ELSE IF op.op = "test" THEN Patch_test(pd, op, acc, options)
  ELSE IF op.op = "copy" THEN Patch_copy(pd, op, acc, options)
  ELSE {OpResult("unexpected operation", pd, acc, FALSE)}

RECURSIVE PatchLoop(_, _, _, _, _, _)
\* the loop from the k-th operation on; own is whether pd is still the
\* container the node holds
PatchLoop(pd, own, p, k, acc, options) ==
  IF k > Len(p) THEN {[err |-> "nil", pd |-> pd, own |-> own]}
  ELSE UNION {IF r.err # "nil" THEN {[err |-> r.err, pd |-> r.pd, own |-> own]}
              ELSE PatchLoop(r.pd, own /\ ~r.swapped, p, k + 1, r.acc, options) :
              r \in ApplyOp(pd, p[k], acc, options)}

\* how the call ends for one end of the loop, c being the node on entry
PatchEnd(c, r) ==
  IF r.err = "panic" THEN [st |-> "panic", n |-> c]
  ELSE IF r.err # "nil" THEN [st |-> "error", n |-> IF r.own THEN r.pd ELSE c]
  ELSE IF c.which = r.pd.which THEN [st |-> "returned", n |-> r.pd]
  ELSE [st |-> "panic", n |-> c]

NodePatch(node, p, options) ==
  With(intoContainer(node), LAMBDA c :
    IF ~IsContainer(c) THEN {[st |-> "error", n |-> c]}
    ELSE {PatchEnd(c, r) : r \in PatchLoop(c, TRUE, p, 1, 0, options)})

(***************************************************************************)
(* Nodes held at two places.  The tree holds *Node pointers; where a copy  *)
(* left one *Node at both its places, what is written through one place    *)
(* shows at the other.  A copy is remembered as its two pointers and       *)
(* whether the places hold one *Node.                                      *)
(***************************************************************************)
Copied(op, same) == [from |-> op.from, path |-> op.path, same |-> same]

\* the node a pointer leads to
NodeAt(root, pointer, options) ==
  With(findObject(root, pointer, options), LAMBDA f :
    IF ~f.ok THEN [ok |-> FALSE, v |-> NilNode]
    ELSE With(con_get(Deref(f.pd, f.ptr), f.key, options), LAMBDA g :
           [ok |-> g.err = "nil", v |-> g.v]))

\* root with the node at a pointer replaced
PutNode(root, pointer, v, options) ==
  With(findObject(root, pointer, options), LAMBDA f :
    IF ~f.ok THEN root
    ELSE With(con_set(Deref(f.pd, f.ptr), f.key, v, options), LAMBDA r :
           IF r.err # "nil" THEN root ELSE Store(f.pd, f.ptr, r.d)))

\* new, the tree an operation made of old, as it reads when the two places
\* of c hold one *Node: the place the operation wrote shows at the other
SyncOne(old, new, c, options) ==
  With(NodeAt(new, c.from, options), LAMBDA a :
  With(NodeAt(new, c.path, options), LAMBDA b :
  With(NodeAt(old, c.path, options), LAMBDA b0 :
    IF ~c.same \/ ~a.ok \/ ~b.ok THEN new
    ELSE IF MarshalJSON(a.v) = MarshalJSON(b.v) THEN new
    ELSE IF ~b0.ok \/ MarshalJSON(b.v) # MarshalJSON(b0.v)
    THEN PutNode(new, c.from, b.v, options)
    ELSE PutNode(new, c.path, a.v, options))))

RECURSIVE Synced(_, _, _, _, _)
\* the same for every copy made so far, from the x-th on
Synced(old, new, made, x, options) ==
  IF x > Len(made) THEN new
  ELSE Synced(old, SyncOne(old, new, made[x], options), made, x + 1, options)

(***************************************************************************)
(* The query engine.  A predicate (and a result) is a PV: a pointer and a  *)
(* value.  FindChildren walks the document text: every object and array is *)
(* visited, the root first, then the object values and array elements in   *)
(* text order, each under the pointer that leads to it from the root.      *)
(***************************************************************************)
PV(path, value) == [Path |-> path, Value |-> value]

\* the node the pointer leads to from the document j taken as the root
Resolved(j, pointer, options) ==
  NodeAt(intoContainer(NewNode(j)), pointer, options)

\* whether the predicate holds at the node j: an expected value that is
\* absent, empty or null holds when the pointer leads to null or leads
\* nowhere; any other holds when the pointer leads to an equal value
PredicateHolds(j, pv, options) ==
  With(Resolved(j, pv.Path, options), LAMBDA r :
    IF isNullRaw(pv.Value) THEN ~r.ok \/ isNullRaw(MarshalJSON(r.v))
    ELSE r.ok /\ JEq(MarshalJSON(r.v), pv.Value))

AllHold(j, ts, options) ==
  \A x \in 1..Len(ts) : PredicateHolds(j, ts[x], options)

RECURSIVE Visit(_, _, _, _)
RECURSIVE VisitChildren(_, _, _, _, _)
\* the results below the container j, from its x-th member on
VisitChildren(j, abs, ts, options, x) ==
  IF x > Len(j.m) THEN <<>>
  ELSE (IF j.t = "obj"
        THEN Visit(j.m[x].v, abs \o <<"/">> \o encodePatchKey(j.m[x].k), ts, options)
        ELSE Visit(j.m[x], abs \o <<"/">> \o Itoa(x - 1), ts, options))
       \o VisitChildren(j, abs, ts, options, x + 1)

\* the results at and below the node j, which is at the pointer abs
Visit(j, abs, ts, options) ==
  IF j.t = "lit" THEN <<>>
  ELSE (IF AllHold(j, ts, options) THEN <<PV(abs, j)>> ELSE <<>>)
       \o VisitChildren(j, abs, ts, options, 1)

FindChildren(j, ts, options) == Visit(j, <<>>, ts, options)

(***************************************************************************)
(* The inputs: documents, patches and options.                             *)
(***************************************************************************)
SeqsUpTo(S, n) == UNION {[1..k -> S] : k \in 0..n}

L1 == Lit(<<"1">>)

L2 == Lit(<<"2">>)

L3 == Lit(<<"3">>)

LNull == Lit(nullLit)

Ka == <<"a">>

Ks == <<"/">>

Ke == <<>>

Str(s) == Lit(<<"\"">> \o s \o <<"\"">>)

RECURSIVE Path(_)
\* the pointer made of the given (already encoded) tokens
Path(tokens) ==
  IF tokens = <<>> THEN <<>> ELSE <<"/">> \o tokens[1] \o Path(Tail(tokens))

Scalars == {L1, L2, LNull}

Arrays == {Arr(els) : els \in SeqsUpTo({L1, LNull}, MaxAryLen)}

FlatObjects ==
  {Obj(<<>>)}
  \cup {Obj(<<Member(k, v)>>) : k \in {Ka, Ks}, v \in Scalars}
  \cup {Obj(<<Member(k[1], v), Member(k[2], w)>>) :
          k \in {<<Ka, Ks>>, <<Ks, Ka>>}, v \in Scalars, w \in Scalars}

Inner == {Obj(<<Member(Ka, L1)>>), Obj(<<Member(Ka, L2)>>),
          Obj(<<Member(Ka, L2), Member(Ks, L1)>>), Arr(<<L1, L2>>), Arr(<<>>)}

Nested ==
  {Arr(<<x>>) : x \in Inner}
  \cup {Obj(<<Member(k, x)>>) : k \in {Ke, Ks}, x \in Inner}
  \cup {Obj(<<Member(Ka, L1), Member(k, x)>>) : k \in {Ke, Ks}, x \in Inner}

\* the documents of ExampleDiff
ExampleSrc ==
  Obj(<<Member(<<"n", "a", "m", "e">>, Str(<<"J", "o", "h", "n">>)),
        Member(<<"a", "g", "e">>, Lit(<<"2", "4">>)),
        Member(<<"h", "e", "i", "g", "h", "t">>, Lit(<<"3", ".", "2", "1">>))>>)

ExampleDst ==
  Obj(<<Member(<<"n", "a", "m", "e">>, Str(<<"J", "a", "n", "e">>)),
        Member(<<"a", "g", "e">>, Lit(<<"2", "4">>))>>)

Docs == Scalars \cup Arrays \cup FlatObjects \cup Nested \cup {ExampleSrc, ExampleDst}

IDKeys == {<<>>, Ka, <<"n", "a", "m", "e">>}

\* the documents the generated patches are applied to
PatchDocs == {Obj(<<Member(Ka, L1), Member(Ks, Arr(<<L1, L2>>))>>),
              Obj(<<Member(Ka, L1), Member(Ks, L2), Member(Ka, L2)>>),
              Arr(<<L1, Obj(<<Member(Ka, LNull)>>)>>),
              Obj(<<Member(Ka, Obj(<<Member(Ka, L2)>>))>>),
              L1}

\* the document of the cases at lines 120
CaseDoc1 ==
  Obj(<<Member(<<"b", "a", "z">>, Str(<<"q", "u", "x">>))>>)

\* the document of the cases at lines 125, 137, 145
CaseDoc2 ==
  Obj(<<Member(<<"b", "a", "z">>, Str(<<"q", "u", "x">>)), Member(<<"f",
    "o", "o">>, Arr(<<Str(<<"a">>), Lit(<<"2">>), Str(<<"c">>)>>))>>)

\* the document of the cases at lines 153
CaseDoc3 ==
  Obj(<<Member(<<"f", "o", "o">>, Obj(<<>>))>>)

\* the document of the cases at lines 158
CaseDoc4 ==
  Obj(<<Member(<<"f", "o", "o">>, Arr(<<>>))>>)

\* the document of the cases at lines 163, 168, 173
CaseDoc5 ==
  Obj(<<Member(<<"f", "o", "o">>, LNull)>>)

\* the document of the cases at lines 178
CaseDoc6 ==
  Obj(<<Member(<<"f", "o", "o">>, Str(<<>>))>>)

\* the document of the cases at lines 183
CaseDoc7 ==
  Obj(<<Member(<<"b", "a", "z", "/", "f", "o", "o">>, Str(<<"q", "u",
    "x">>))>>)

\* the document of the cases at lines 188
CaseDoc8 ==
  Obj(<<Member(<<"b", "a", "z", "/", "f", "o", "o">>, Arr(<<Str(<<"q",
    "u", "x">>)>>))>>)

\* the document of the cases at lines 193, 205, 214
CaseDoc9 ==
  Arr(<<Str(<<"r", "o", "o", "t">>), Arr(<<Str(<<"o", "b", "j", "e", "c",
    "t">>), Obj(<<Member(<<"i", "d">>, Str(<<"i", "d", "1">>))>>)>>),
    Arr(<<Str(<<"o", "b", "j", "e", "c", "t">>), Obj(<<Member(<<"i", "d">>,
    Str(<<"i", "d", "2">>))>>)>>)>>)

\* the document of the cases at lines 223, 232, 241, 250
CaseDoc10 ==
  Arr(<<Str(<<"r", "o", "o", "t">>), Arr(<<Str(<<"o", "b", "j", "e", "c",
    "t">>), Obj(<<Member(<<"i", "d">>, Str(<<>>))>>)>>), Arr(<<Str(<<"o",
    "b", "j", "e", "c", "t">>), Obj(<<Member(<<"i", "d">>, LNull)>>)>>)>>)

\* the document of the cases at lines 259, 271, 289
CaseDoc11 ==
  Arr(<<Str(<<"r", "o", "o", "t">>), Arr(<<Str(<<"o", "b", "j", "e", "c",
    "t", "1">>), Obj(<<Member(<<"i", "d">>, Str(<<>>))>>)>>),
    Arr(<<Str(<<"o", "b", "j", "e", "c", "t", "2">>), Obj(<<Member(<<"i",
    "d">>, LNull)>>)>>)>>)

\* the document of the cases at lines 309, 325, 337
CaseDoc12 ==
  Arr(<<Str(<<"r", "o", "o", "t">>), Arr(<<Str(<<"p">>), Arr(<<Str(<<"s",
    "p", "a", "n">>), Obj(<<Member(<<"d", "a", "t", "a", "-", "t", "y",
    "p", "e">>, Str(<<"t", "e", "x", "t">>))>>), Arr(<<Str(<<"s", "p", "a",
    "n">>), Obj(<<Member(<<"d", "a", "t", "a", "-", "t", "y", "p", "e">>,
    Str(<<"l", "e", "a", "f">>))>>), Str(<<"H", "e", "l", "l", "o", " ",
    "1">>)>>), Arr(<<Str(<<"s", "p", "a", "n">>), Obj(<<Member(<<"d", "a",
    "t", "a", "-", "t", "y", "p", "e">>, Str(<<"l", "e", "a", "f">>))>>),
    Str(<<"H", "e", "l", "l", "o", " ", "2">>)>>), Arr(<<Str(<<"s", "p",
    "a", "n">>), Obj(<<Member(<<"d", "a", "t", "a", "-", "t", "y", "p",
    "e">>, Str(<<"l", "e", "a", "f">>))>>), Str(<<"H", "e", "l", "l", "o",
    " ", "3">>)>>), Arr(<<Str(<<"s", "p", "a", "n">>), Obj(<<Member(<<"d",
    "a", "t", "a", "-", "t", "y", "p", "e">>, LNull)>>), Str(<<"H", "e",
    "l", "l", "o", " ", "4">>)>>)>>)>>)>>)

\* the table of TestFindChildren: the document, the predicates and the
\* result the test requires, one record per case, in the order of the table
FindChildrenCases ==
  <<
   \* line 120
   [doc |-> CaseDoc1,
    tests |-> <<PV(<<"/", "b", "a", "z">>, Str(<<"q", "u", "x">>))>>,
    result |-> <<PV(<<>>, Obj(<<Member(<<"b", "a", "z">>, Str(<<"q", "u",
                    "x">>))>>))>>],
   \* line 125
   [doc |-> CaseDoc2,
    tests |-> <<PV(<<"/", "f", "o", "o", "/", "0">>, Str(<<"a">>))>>,
    result |-> <<PV(<<>>, Obj(<<Member(<<"b", "a", "z">>, Str(<<"q", "u",
                    "x">>)), Member(<<"f", "o", "o">>,
                    Arr(<<Str(<<"a">>), Lit(<<"2">>),
                    Str(<<"c">>)>>))>>))>>],
   \* line 137
   [doc |-> CaseDoc2,
    tests |-> <<PV(<<"/", "1">>, Lit(<<"2">>))>>,
    result |-> <<PV(<<"/", "f", "o", "o">>, Arr(<<Str(<<"a">>), Lit(<<"2">>), Str(<<"c">>)>>))>>],
   \* line 145
   [doc |-> CaseDoc2,
    tests |-> <<PV(<<"/", "f", "o", "o", "o">>, NoValue)>>,
    result |-> <<>>],
   \* line 153
   [doc |-> CaseDoc3,
    tests |-> <<PV(<<"/", "f", "o", "o">>, Obj(<<>>))>>,
    result |-> <<PV(<<>>, Obj(<<Member(<<"f", "o", "o">>, Obj(<<>>))>>))>>],
   \* line 158
   [doc |-> CaseDoc4,
    tests |-> <<PV(<<"/", "f", "o", "o">>, Arr(<<>>))>>,
    result |-> <<PV(<<>>, Obj(<<Member(<<"f", "o", "o">>, Arr(<<>>))>>))>>],
   \* line 163
   [doc |-> CaseDoc5,
    tests |-> <<PV(<<"/", "f", "o", "o">>, NoValue)>>,
    result |-> <<PV(<<>>, Obj(<<Member(<<"f", "o", "o">>, LNull)>>))>>],
   \* line 168
   [doc |-> CaseDoc5,
    tests |-> <<PV(<<"/", "f", "o", "o">>, NoValue)>>,
    result |-> <<PV(<<>>, Obj(<<Member(<<"f", "o", "o">>, LNull)>>))>>],
   \* line 173
   [doc |-> CaseDoc5,
    tests |-> <<PV(<<"/", "f", "o", "o">>, LNull)>>,
    result |-> <<PV(<<>>, Obj(<<Member(<<"f", "o", "o">>, LNull)>>))>>],
   \* line 178
   [doc |-> CaseDoc6,
    tests |-> <<PV(<<"/", "f", "o", "o">>, Str(<<>>))>>,
    result |-> <<PV(<<>>, Obj(<<Member(<<"f", "o", "o">>, Str(<<>>))>>))>>],
   \* line 183
   [doc |-> CaseDoc7,
    tests |-> <<PV(<<"/", "b", "a", "z", "~", "1", "f", "o", "o">>, Str(<<"q", "u", "x">>))>>,
    result |-> <<PV(<<>>, Obj(<<Member(<<"b", "a", "z", "/", "f", "o", "o">>,
                    Str(<<"q", "u", "x">>))>>))>>],
   \* line 188
   [doc |-> CaseDoc8,
    tests |-> <<PV(<<"/", "0">>, Str(<<"q", "u", "x">>))>>,
    result |-> <<PV(<<"/", "b", "a", "z", "~", "1", "f", "o", "o">>, Arr(<<Str(<<"q", "u", "x">>)>>))>>],
   \* line 193
   [doc |-> CaseDoc9,
    tests |-> <<PV(<<"/", "0">>, Str(<<"o", "b", "j", "e", "c", "t">>))>>,
    result |-> <<PV(<<"/", "1">>, Arr(<<Str(<<"o", "b", "j", "e", "c", "t">>),
                    Obj(<<Member(<<"i", "d">>, Str(<<"i", "d",
                    "1">>))>>)>>)),
               PV(<<"/", "2">>, Arr(<<Str(<<"o", "b", "j", "e", "c", "t">>),
                    Obj(<<Member(<<"i", "d">>, Str(<<"i", "d",
                    "2">>))>>)>>))>>],
   \* line 205
   [doc |-> CaseDoc9,
    tests |-> <<PV(<<"/", "1", "/", "i", "d">>, Str(<<"i", "d", "1">>))>>,
    result |-> <<PV(<<"/", "1">>, Arr(<<Str(<<"o", "b", "j", "e", "c", "t">>),
                    Obj(<<Member(<<"i", "d">>, Str(<<"i", "d",
                    "1">>))>>)>>))>>],
   \* line 214
   [doc |-> CaseDoc9,
    tests |-> <<PV(<<"/", "1">>, Obj(<<Member(<<"i", "d">>, Str(<<"i", "d",
                   "1">>))>>))>>,
    result |-> <<PV(<<"/", "1">>, Arr(<<Str(<<"o", "b", "j", "e", "c", "t">>),
                    Obj(<<Member(<<"i", "d">>, Str(<<"i", "d",
                    "1">>))>>)>>))>>],
   \* line 223
   [doc |-> CaseDoc10,
    tests |-> <<PV(<<"/", "1", "/", "i", "d">>, Str(<<>>))>>,
    result |-> <<PV(<<"/", "1">>, Arr(<<Str(<<"o", "b", "j", "e", "c", "t">>),
                    Obj(<<Member(<<"i", "d">>, Str(<<>>))>>)>>))>>],
   \* line 232
   [doc |-> CaseDoc10,
    tests |-> <<PV(<<"/", "1", "/", "i", "d">>, LNull)>>,
    result |-> <<PV(<<"/", "2">>, Arr(<<Str(<<"o", "b", "j", "e", "c", "t">>),
                    Obj(<<Member(<<"i", "d">>, LNull)>>)>>))>>],
   \* line 241
   [doc |-> CaseDoc10,
    tests |-> <<PV(<<"/", "1", "/", "i", "d">>, LNull)>>,
    result |-> <<PV(<<"/", "2">>, Arr(<<Str(<<"o", "b", "j", "e", "c", "t">>),
                    Obj(<<Member(<<"i", "d">>, LNull)>>)>>))>>],
   \* line 250
   [doc |-> CaseDoc10,
    tests |-> <<PV(<<"/", "1", "/", "i", "d">>, Str(<<>>))>>,
    result |-> <<PV(<<"/", "1">>, Arr(<<Str(<<"o", "b", "j", "e", "c", "t">>),
                    Obj(<<Member(<<"i", "d">>, Str(<<>>))>>)>>))>>],
   \* line 259
   [doc |-> CaseDoc11,
    tests |-> <<PV(<<"/", "0">>, Str(<<"o", "b", "j", "e", "c", "t", "2">>)),
              PV(<<"/", "1", "/", "i", "d">>, LNull)>>,
    result |-> <<PV(<<"/", "2">>, Arr(<<Str(<<"o", "b", "j", "e", "c", "t", "2">>),
                    Obj(<<Member(<<"i", "d">>, LNull)>>)>>))>>],
   \* line 271
   [doc |-> CaseDoc11,
    tests |-> <<PV(<<"/", "0">>, Str(<<"r", "o", "o", "t">>)),
              PV(<<"/", "1", "/", "0">>, Str(<<"o", "b", "j", "e", "c", "t", "1">>)),
              PV(<<"/", "1", "/", "1", "/", "i", "d">>, Str(<<>>))>>,
    result |-> <<PV(<<>>, Arr(<<Str(<<"r", "o", "o", "t">>), Arr(<<Str(<<"o",
                    "b", "j", "e", "c", "t", "1">>), Obj(<<Member(<<"i",
                    "d">>, Str(<<>>))>>)>>), Arr(<<Str(<<"o", "b", "j",
                    "e", "c", "t", "2">>), Obj(<<Member(<<"i", "d">>,
                    LNull)>>)>>)>>))>>],
   \* line 289
   [doc |-> CaseDoc11,
    tests |-> <<PV(<<"/", "0">>, Str(<<"r", "o", "o", "t">>)),
              PV(<<"/", "1", "/", "0">>, Str(<<"o", "b", "j", "e", "c", "t", "1">>)),
              PV(<<"/", "1", "/", "1", "/", "i", "d">>, Str(<<>>)),
              PV(<<"/", "2">>, Arr(<<Str(<<"o", "b", "j", "e", "c", "t", "2">>),
                   Obj(<<Member(<<"i", "d">>, LNull)>>)>>))>>,
    result |-> <<PV(<<>>, Arr(<<Str(<<"r", "o", "o", "t">>), Arr(<<Str(<<"o",
                    "b", "j", "e", "c", "t", "1">>), Obj(<<Member(<<"i",
                    "d">>, Str(<<>>))>>)>>), Arr(<<Str(<<"o", "b", "j",
                    "e", "c", "t", "2">>), Obj(<<Member(<<"i", "d">>,
                    LNull)>>)>>)>>))>>],
   \* line 309
   [doc |-> CaseDoc12,
    tests |-> <<PV(<<"/", "0">>, Str(<<"s", "p", "a", "n">>)),
              PV(<<"/", "1", "/", "d", "a", "t", "a", "-", "t", "y", "p", "e">>, Str(<<"l", "e", "a", "f">>))>>,
    result |-> <<PV(<<"/", "1", "/", "1", "/", "2">>, Arr(<<Str(<<"s", "p", "a", "n">>),
                    Obj(<<Member(<<"d", "a", "t", "a", "-", "t", "y",
                    "p", "e">>, Str(<<"l", "e", "a", "f">>))>>),
                    Str(<<"H", "e", "l", "l", "o", " ", "1">>)>>)),
               PV(<<"/", "1", "/", "1", "/", "3">>, Arr(<<Str(<<"s", "p", "a", "n">>),
                    Obj(<<Member(<<"d", "a", "t", "a", "-", "t", "y",
                    "p", "e">>, Str(<<"l", "e", "a", "f">>))>>),
                    Str(<<"H", "e", "l", "l", "o", " ", "2">>)>>)),
               PV(<<"/", "1", "/", "1", "/", "4">>, Arr(<<Str(<<"s", "p", "a", "n">>),
                    Obj(<<Member(<<"d", "a", "t", "a", "-", "t", "y",
                    "p", "e">>, Str(<<"l", "e", "a", "f">>))>>),
                    Str(<<"H", "e", "l", "l", "o", " ", "3">>)>>))>>],
   \* line 325
   [doc |-> CaseDoc12,
    tests |-> <<PV(<<"/", "0">>, Str(<<"s", "p", "a", "n">>)),
              PV(<<"/", "1", "/", "d", "a", "t", "a", "-", "t", "y", "p", "e">>, NoValue)>>,
    result |-> <<PV(<<"/", "1", "/", "1", "/", "5">>, Arr(<<Str(<<"s", "p", "a", "n">>),
                    Obj(<<Member(<<"d", "a", "t", "a", "-", "t", "y",
                    "p", "e">>, LNull)>>), Str(<<"H", "e", "l", "l", "o",
                    " ", "4">>)>>))>>],
   \* line 337
   [doc |-> CaseDoc12,
    tests |-> <<PV(<<"/", "0">>, Str(<<"s", "p", "a", "n">>))>>,
    result |-> <<PV(<<"/", "1", "/", "1">>, Arr(<<Str(<<"s", "p", "a", "n">>),
                    Obj(<<Member(<<"d", "a", "t", "a", "-", "t", "y",
                    "p", "e">>, Str(<<"t", "e", "x", "t">>))>>),
                    Arr(<<Str(<<"s", "p", "a", "n">>),
                    Obj(<<Member(<<"d", "a", "t", "a", "-", "t", "y",
                    "p", "e">>, Str(<<"l", "e", "a", "f">>))>>),
                    Str(<<"H", "e", "l", "l", "o", " ", "1">>)>>),
                    Arr(<<Str(<<"s", "p", "a", "n">>),
                    Obj(<<Member(<<"d", "a", "t", "a", "-", "t", "y",
                    "p", "e">>, Str(<<"l", "e", "a", "f">>))>>),
                    Str(<<"H", "e", "l", "l", "o", " ", "2">>)>>),
                    Arr(<<Str(<<"s", "p", "a", "n">>),
                    Obj(<<Member(<<"d", "a", "t", "a", "-", "t", "y",
                    "p", "e">>, Str(<<"l", "e", "a", "f">>))>>),
                    Str(<<"H", "e", "l", "l", "o", " ", "3">>)>>),
                    Arr(<<Str(<<"s", "p", "a", "n">>),
                    Obj(<<Member(<<"d", "a", "t", "a", "-", "t", "y",
                    "p", "e">>, LNull)>>), Str(<<"H", "e", "l", "l", "o",
                    " ", "4">>)>>)>>)),
               PV(<<"/", "1", "/", "1", "/", "2">>, Arr(<<Str(<<"s", "p", "a", "n">>),
                    Obj(<<Member(<<"d", "a", "t", "a", "-", "t", "y",
                    "p", "e">>, Str(<<"l", "e", "a", "f">>))>>),
                    Str(<<"H", "e", "l", "l", "o", " ", "1">>)>>)),
               PV(<<"/", "1", "/", "1", "/", "3">>, Arr(<<Str(<<"s", "p", "a", "n">>),
                    Obj(<<Member(<<"d", "a", "t", "a", "-", "t", "y",
                    "p", "e">>, Str(<<"l", "e", "a", "f">>))>>),
                    Str(<<"H", "e", "l", "l", "o", " ", "2">>)>>)),
               PV(<<"/", "1", "/", "1", "/", "4">>, Arr(<<Str(<<"s", "p", "a", "n">>),
                    Obj(<<Member(<<"d", "a", "t", "a", "-", "t", "y",
                    "p", "e">>, Str(<<"l", "e", "a", "f">>))>>),
                    Str(<<"H", "e", "l", "l", "o", " ", "3">>)>>)),
               PV(<<"/", "1", "/", "1", "/", "5">>, Arr(<<Str(<<"s", "p", "a", "n">>),
                    Obj(<<Member(<<"d", "a", "t", "a", "-", "t", "y",
                    "p", "e">>, LNull)>>), Str(<<"H", "e", "l", "l", "o",
                    " ", "4">>)>>))>>]
  >>
QueryDocs == {FindChildrenCases[x].doc : x \in 1..Len(FindChildrenCases)}

\* the texts given to Node.UnmarshalJSON
UnmarshalTexts == {L1, Obj(<<>>), Arr(<<L1>>)}

Kc == <<"c">>

OpSet ==
  {Operation("add", Path(<<Ka>>), <<>>, L2),
   Operation("add", Path(<<Kc, Ka>>), <<>>, L1),
   Operation("add", Path(<<encodePatchKey(Ks), <<"-">>>>), <<>>, LNull),
   Operation("add", Path(<<<<"1">>>>), <<>>, Arr(<<L1>>)),
   Operation("add", Path(<<<<"5">>>>), <<>>, L1),
   Operation("add", Path(<<Kc, <<"1">>>>), <<>>, L1),
   Operation("add", Path(<<Kc, <<"-">>>>), <<>>, L2),
   Operation("add", Path(<<encodePatchKey(Ks), <<"3">>, Ka>>), <<>>, L1),
   Operation("add", Path(<<encodePatchKey(<<"~">>), Ka>>), <<>>, L1),
   Operation("remove", Path(<<Ka>>), <<>>, NoValue),
   Operation("remove", Path(<<encodePatchKey(Ks), <<"0">>>>), <<>>, NoValue),
   Operation("remove", Path(<<<<"5">>>>), <<>>, NoValue),
   Operation("remove", Path(<<<<"-", "5">>>>), <<>>, NoValue),
   Operation("add", Path(<<encodePatchKey(Ks), <<"-", "1">>>>), <<>>, L3),
   Operation("remove", Path(<<encodePatchKey(Ks), <<"-", "1">>>>), <<>>, NoValue),
   Operation("replace", Path(<<encodePatchKey(Ks), <<"-", "2">>>>), <<>>, L3),
   Operation("test", Path(<<encodePatchKey(Ks), <<"-", "1">>>>), <<>>, L2),
   Operation("replace", <<>>, <<>>, Obj(<<Member(Ka, L2)>>)),
   Operation("replace", <<>>, <<>>, Arr(<<L1>>)),
   Operation("replace", <<>>, <<>>, L1),
   Operation("replace", Path(<<Ka>>), <<>>, L2),
   Operation("move", Path(<<Kc>>), Path(<<Ka>>), NoValue),
   Operation("move", Path(<<<<"-">>>>), Path(<<<<"0">>>>), NoValue),
   Operation("move", Path(<<Ka>>), Path(<<Kc>>), NoValue),
   Operation("move", Path(<<<<"0">>>>), Path(<<<<"5">>>>), NoValue),
   Operation("move", Path(<<<<"2">>>>), Path(<<<<"0">>>>), NoValue),
   Operation("move", Path(<<Ka, Kc>>), Path(<<Ka>>), NoValue),
   Operation("copy", Path(<<Kc>>), Path(<<Ka>>), NoValue),
   Operation("copy", Path(<<Ka, Kc>>), Path(<<Ka>>), NoValue),
   Operation("add", Path(<<Ka, Kc, Ka>>), <<>>, L1),
   Operation("copy", Path(<<Kc>>), Path(<<encodePatchKey(Ks)>>), NoValue),
   Operation("copy", Path(<<<<"-">>>>), Path(<<<<"-", "1">>>>), NoValue),
   Operation("test", Path(<<Ka>>), <<>>, L1),
   Operation("test", Path(<<<<"1">>, Ka>>), <<>>, NoValue),
   Operation("test", <<>>, <<>>, Arr(<<L1>>)),
   Operation("test", Path(<<Kc>>), <<>>, LNull),
   Operation("test", Path(<<<<"5">>>>), <<>>, LNull),
   Operation("test", Path(<<<<"1">>, Ka>>), <<>>, L1),
   Operation("test", Path(<<<<"1">>, Kc>>), <<>>, L1),
   Operation("nop", <<>>, <<>>, NoValue)}

OptionSet ==
  {NewOptions, Options(TRUE, CopyLimit, FALSE, FALSE), Options(FALSE, 0, FALSE, FALSE),
   Options(TRUE, 0, TRUE, FALSE), Options(TRUE, 0, FALSE, TRUE),
   Options(FALSE, 0, TRUE, FALSE)}

KeyChars == {"a", "c", "/", "~", "0", "1"}

KeyStrings == SeqsUpTo(KeyChars, MaxKeyLen)

(***************************************************************************)
(* The state.                                                              *)
(*   phase    where the caller is: "new" (a Node was made from src),       *)
(*            "compared" (Equal returned), "diffed" (Diff returned), "run" *)
(*            (inside the loop of Node.Patch), "returned" / "error" /      *)
(*            "panic" (how Node.Patch ended), "marshalled", "unmarshalled", *)
(*            "found" (FindChildren returned); and "key",                  *)
(*            "encoded", "decoded" for a key being escaped                 *)
(*   src dst  the documents given to NewNode, Equal and Diff               *)
(*   IDKey    DiffOptions.IDKey ("" for none)                              *)
(*   res      what Equal or Diff did: "true", "false", "ok", "panic"       *)
(*   patch    the patch Diff returned                                      *)
(*   fromDiff whether Node.Patch applies patch (or a generated patch)      *)
(*   n        the Node                                                     *)
(*   pd       the working container of Node.Patch                          *)
(*   aliased  whether pd is still the container n holds                    *)
(*   i nops   the index of the current operation and the patch length      *)
(*   acc      accumulatedCopySize                                          *)
(*   options  the Options of the call                                      *)
(*   err      the error of the last operation ("nil" for none)             *)
(*   last     the last operation executed                                  *)
(*   before   the encoding of pd before the last operation                 *)
(*   out      what MarshalJSON returned                                    *)
(*   copies   the copies this call of Node.Patch has made                  *)
(*   done     the patches given to Node.Patch so far, one per call, each   *)
(*            as far as it has run                                         *)
(*   tests found want   the predicates of a case of TestFindChildren, what  *)
(*            FindChildren made of them, and the result the case requires  *)
(*   key token decoded   a key, its encoding, and the decoding of that     *)
(***************************************************************************)
VARIABLES phase, src, dst, IDKey, res, patch, fromDiff, n, pd, aliased, i, nops,
          acc, options, err, last, before, out, copies, done, key, token, decoded,
          tests, found, want

vars == <<phase, src, dst, IDKey, res, patch, fromDiff, n, pd, aliased, i, nops,
          acc, options, err, last, before, out, copies, done, key, token, decoded,
          tests, found, want>>

NoOp == Operation("", <<>>, <<>>, NoValue)

callVars == <<pd, aliased, i, nops, acc, options, err, last, before, copies, done>>

diffVars == <<dst, IDKey, res, patch>>

keyVars == <<key, token, decoded>>

queryVars == <<tests, found, want>>

Init ==
  /\ \/ phase = "new" /\ src \in Docs \cup PatchDocs \cup QueryDocs /\ key = <<>>
     \/ phase = "key" /\ src = NoValue /\ key \in KeyStrings
  /\ n = NewNode(src)
  /\ dst = NoValue /\ IDKey = <<>> /\ res = "" /\ patch = <<>> /\ fromDiff = FALSE
  /\ pd = NilNode /\ aliased = FALSE /\ i = 0 /\ nops = 0 /\ acc = 0
  /\ options = NewOptions /\ err = "nil" /\ last = NoOp /\ before = NoValue
  /\ out = NoValue /\ copies = <<>> /\ done = <<>> /\ token = <<>> /\ decoded = <<>>
  /\ tests = <<>> /\ found = <<>> /\ want = <<>>

\* Equal(a, b []byte)
CallEqual ==
  /\ phase = "new"
  /\ \E b \in Docs : \E e \in Equal(NewNode(src), NewNode(b)) :
       dst' = b /\ res' = e
  /\ phase' = "compared"
  /\ UNCHANGED <<src, IDKey, patch, fromDiff, n, out>>
  /\ UNCHANGED callVars /\ UNCHANGED keyVars /\ UNCHANGED queryVars

\* Diff(src, dst []byte, opts)
CallDiff ==
  /\ phase = "new"
  /\ \E b \in Docs, k \in IDKeys : \E r \in Diff(src, b, k) :
       dst' = b /\ IDKey' = k /\ res' = r.st /\ patch' = r.patch
  /\ phase' = "diffed"
  /\ UNCHANGED <<src, fromDiff, n, out>>
  /\ UNCHANGED callVars /\ UNCHANGED keyVars /\ UNCHANGED queryVars

\* the entry of Node.Patch: n.intoContainer(), the default options, the
\* counter at 0
Enter(len, opts, given) ==
  /\ n' = intoContainer(n)
  /\ IF IsContainer(n')
     THEN phase' = "run" /\ pd' = n' /\ aliased' = TRUE /\ err' = "nil"
     ELSE phase' = "error" /\ pd' = NilNode /\ aliased' = FALSE
          /\ err' = "unexpected node"
  /\ i' = 1 /\ nops' = len /\ acc' = 0 /\ options' = opts /\ fromDiff' = given
  /\ last' = NoOp /\ before' = NoValue /\ copies' = <<>> /\ done' = Append(done, <<>>)
  /\ UNCHANGED <<src, out>> /\ UNCHANGED diffVars /\ UNCHANGED keyVars /\ UNCHANGED queryVars

\* patch.Apply(src) with the patch Diff returned
ApplyDiff ==
  /\ phase = "diffed" /\ res = "ok"
  /\ Enter(Len(patch), NewOptions, TRUE)

\* node.Patch(p, options) with a generated patch of at most MaxOps operations
CallPatch ==
  /\ phase = "new" /\ src \in PatchDocs
  /\ \E len \in 0..MaxOps, opts \in OptionSet : Enter(len, opts, FALSE)

\* node.Patch(p, options) once more, on the node the first call left, with
\* the same options; the two patches together hold at most MaxOps operations
CallAgain ==
  /\ phase = "returned" /\ ~fromDiff /\ Len(done) = 1
  /\ \E len \in 0..(MaxOps - Len(done[1])) : Enter(len, options, FALSE)

\* the operations the i-th element of the patch can be
CurrentOps == IF fromDiff THEN {patch[i]} ELSE OpSet

\* the end of one iteration of the loop of Node.Patch
Step(op, r) ==
  /\ pd' = Synced(pd, r.pd, copies, 1, options)
  /\ acc' = r.acc /\ err' = r.err
  /\ aliased' = (aliased /\ ~r.swapped)
  /\ n' = IF aliased /\ ~r.swapped THEN pd' ELSE n
  /\ copies' = IF op.op = "copy" /\ r.err = "nil"
               THEN Append(copies, Copied(op, r.same)) ELSE copies
  /\ done' = [done EXCEPT ![Len(done)] = Append(@, op)]
  /\ phase' = IF r.err = "nil" THEN "run"
              ELSE IF r.err = "panic" THEN "panic" ELSE "error"
  /\ i' = IF r.err = "nil" THEN i + 1 ELSE i
  /\ last' = op /\ before' = MarshalJSON(pd)
  /\ UNCHANGED <<src, fromDiff, nops, options, out>>
  /\ UNCHANGED diffVars /\ UNCHANGED keyVars /\ UNCHANGED queryVars

InLoop == phase = "run" /\ i <= nops

OpAdd ==
  /\ InLoop
  /\ \E op \in CurrentOps : op.op = "add"
       /\ \E r \in Patch_add(pd, op, acc, options) : Step(op, r)

OpRemove ==
  /\ InLoop
  /\ \E op \in CurrentOps : op.op = "remove"
       /\ \E r \in Patch_remove(pd, op, acc, options) : Step(op, r)

OpReplace ==
  /\ InLoop
  /\ \E op \in CurrentOps : op.op = "replace"
       /\ \E r \in Patch_replace(pd, op, acc, options) : Step(op, r)

OpMove ==
  /\ InLoop
  /\ \E op \in CurrentOps : op.op = "move"
       /\ \E r \in Patch_move(pd, op, acc, options) : Step(op, r)

OpTest ==
  /\ InLoop
  /\ \E op \in CurrentOps : op.op = "test"
       /\ \E r \in Patch_test(pd, op, acc, options) : Step(op, r)

OpCopy ==
  /\ InLoop
  /\ \E op \in CurrentOps : op.op = "copy"
       /\ \E r \in Patch_copy(pd, op, acc, options) : Step(op, r)

\* the default case of the switch
OpUnexpected ==
  /\ InLoop
  /\ \E op \in CurrentOps :
       /\ op.op \notin {"add", "remove", "replace", "move", "test", "copy"}
       /\ Step(op, OpResult("unexpected operation", pd, acc, FALSE))

\* after the loop: the node takes the working container, by a type
\* assertion on the kind the node had on entry
PatchReturn ==
  /\ phase = "run" /\ i > nops
  /\ IF n.which = pd.which
     THEN n' = pd /\ phase' = "returned" /\ err' = "nil"
     ELSE n' = n /\ phase' = "panic" /\ err' = "panic"
  /\ UNCHANGED <<src, fromDiff, pd, aliased, i, nops, acc, options, last, before, out,
                 copies, done>>
  /\ UNCHANGED diffVars /\ UNCHANGED keyVars /\ UNCHANGED queryVars

\* node.MarshalJSON() after Node.Patch returned nil
Marshal ==
  /\ phase = "returned"
  /\ out' = MarshalJSON(n) /\ n' = Marshalled(n)
  /\ phase' = "marshalled"
  /\ UNCHANGED <<src, fromDiff>>
  /\ UNCHANGED callVars /\ UNCHANGED diffVars /\ UNCHANGED keyVars /\ UNCHANGED queryVars

\* node.UnmarshalJSON(data) on the node as it is, new or classified by
\* Node.Patch or MarshalJSON; the model follows the node no further
CallUnmarshalJSON ==
  /\ phase \in {"new", "returned", "marshalled"}
  /\ \E data \in UnmarshalTexts : n' = Node_UnmarshalJSON(n, data)
  /\ phase' = "unmarshalled"
  /\ UNCHANGED <<src, fromDiff, out>>
  /\ UNCHANGED callVars /\ UNCHANGED diffVars /\ UNCHANGED keyVars /\ UNCHANGED queryVars

\* one case of TestFindChildren: NewNode(c.doc).FindChildren(c.tests, nil),
\* whose result the test compares with c.result
TestFindChildren ==
  /\ phase = "new"
  /\ \E x \in 1..Len(FindChildrenCases) :
       /\ src = FindChildrenCases[x].doc
       /\ tests' = FindChildrenCases[x].tests
       /\ want' = FindChildrenCases[x].result
       /\ found' = FindChildren(src, tests', NewOptions)
  /\ phase' = "found"
  /\ UNCHANGED <<src, fromDiff, n, out>>
  /\ UNCHANGED callVars /\ UNCHANGED diffVars /\ UNCHANGED keyVars

EncodeKey ==
  /\ phase = "key"
  /\ token' = encodePatchKey(key)
  /\ phase' = "encoded"
  /\ UNCHANGED <<src, fromDiff, n, out, key, decoded>>
  /\ UNCHANGED callVars /\ UNCHANGED diffVars /\ UNCHANGED queryVars

DecodeKey ==
  /\ phase = "encoded"
  /\ decoded' = decodePatchKey(token)
  /\ phase' = "decoded"
  /\ UNCHANGED <<src, fromDiff, n, out, key, token>>
  /\ UNCHANGED callVars /\ UNCHANGED diffVars /\ UNCHANGED queryVars

Next ==
  \/ CallEqual
  \/ CallDiff
  \/ ApplyDiff
  \/ CallPatch
  \/ CallAgain
  \/ OpAdd
  \/ OpRemove
  \/ OpReplace
  \/ OpMove
  \/ OpTest
  \/ OpCopy
  \/ OpUnexpected
  \/ PatchReturn
  \/ Marshal
  \/ CallUnmarshalJSON
  \/ TestFindChildren
  \/ EncodeKey
  \/ DecodeKey

Spec == Init /\ [][Next]_vars

(***************************************************************************)
(* JSON documents as values: what "structurally equal", "the value at a    *)
(* pointer" and "the operations under a path" mean, stated on the texts    *)
(* and not through the package.                                            *)
(***************************************************************************)
\* the value the tokens lead to from j, if they lead to one
RECURSIVE JGet(_, _, _)
JGet(j, tokens, neg) ==
  IF tokens = <<>> THEN [ok |-> TRUE, v |-> j]
  ELSE IF j.t = "obj"
  THEN IF decodePatchKey(tokens[1]) \in JKeys(j)
       THEN JGet(JVal(j, decodePatchKey(tokens[1])), Tail(tokens), neg)
       ELSE [ok |-> FALSE, v |-> NoValue]
  ELSE IF j.t = "arr"
  THEN With(Atoi(tokens[1]), LAMBDA a :
         With(IF a.v < 0 /\ neg THEN a.v + Len(j.m) ELSE a.v, LAMBDA idx :
           IF a.ok /\ idx >= 0 /\ idx < Len(j.m)
           THEN JGet(j.m[idx + 1], Tail(tokens), neg)
           ELSE [ok |-> FALSE, v |-> NoValue]))
  ELSE [ok |-> FALSE, v |-> NoValue]

\* the value at a JSON pointer
JAt(j, pointer, neg) ==
  IF pointer = <<>> THEN [ok |-> TRUE, v |-> j]
  ELSE JGet(j, Tail(Split(pointer)), neg)

\* whether path is prefix or lies below it
Under(prefix, path) ==
  path = prefix
  \/ (Len(path) > Len(prefix) /\ SubSeq(path, 1, Len(prefix) + 1) = prefix \o <<"/">>)

\* the operations of p with prefix put before their paths
Prefixed(p, prefix) == [h \in 1..Len(p) |-> [p[h] EXCEPT !.path = prefix \o @]]

IsArrayPair == src.t = "arr" /\ dst.t = "arr"

IsObjectPair == src.t = "obj" /\ dst.t = "obj"

(***************************************************************************)
(* C1  Round trip: Diff(A, B) succeeds, applying its patch to A with the   *)
(* default options succeeds, and the result is structurally equal to B.    *)
(* (Diff without DiffOptions.)                                             *)
(***************************************************************************)
DiffApplyRoundTrip ==
  IDKey = <<>> =>
    /\ phase = "diffed" => res = "ok"
    /\ fromDiff => phase \notin {"error", "panic"}
    /\ fromDiff /\ phase = "marshalled" => JEq(out, dst)

(***************************************************************************)
(* C2  When the source array is longer than the destination array, the     *)
(* removes of the surplus indices come from the highest index down to the  *)
(* lowest, every remove of the patch succeeds when it is applied, and the  *)
(* result has exactly len(dst) elements.                                   *)
(***************************************************************************)
\* the indices of the removes of root elements, in patch order
RemoveIndices(p) ==
  With(SelectSeq(p, LAMBDA o : o.op = "remove" /\ Len(Split(o.path)) = 2), LAMBDA rs :
    [h \in 1..Len(rs) |-> Atoi(Split(rs[h].path)[2]).v])

RemovalsDescend ==
  /\ phase = "diffed" /\ res = "ok" /\ IDKey = <<>>
       /\ IsArrayPair /\ Len(src.m) > Len(dst.m)
       => RemoveIndices(patch)
            = [h \in 1..(Len(src.m) - Len(dst.m)) |-> Len(src.m) - h]
  /\ fromDiff /\ IDKey = <<>> /\ IsArrayPair /\ Len(src.m) > Len(dst.m)
       => /\ phase \notin {"error", "panic"}
          /\ phase = "marshalled" => Len(out.m) = Len(dst.m)

(***************************************************************************)
(* C3  Diff(A, A) returns the empty patch without error, for every A,      *)
(* null members included.                                                  *)
(***************************************************************************)
DiffSelfEmpty ==
  phase = "diffed" /\ IDKey = <<>> /\ dst = src => res = "ok" /\ patch = <<>>

(***************************************************************************)
(* C4  Equal answers structural equality: objects by key set and values,   *)
(* arrays by length and position, a container never equal to a scalar.     *)
(***************************************************************************)
EqualIsStructural ==
  phase = "compared" => res = BoolOf(JEq(src, dst))

(***************************************************************************)
(* C5  A replace with path "" and an object or array value makes the       *)
(* document that value whatever kind the root was, and Node.Patch returns  *)
(* without error; with a scalar value the operation fails.                 *)
(***************************************************************************)
ReplaceWholeDocument ==
  last.op = "replace" /\ last.path = <<>> =>
    IF last.value.t \in {"obj", "arr"}
    THEN /\ phase \notin {"error", "panic"}
         /\ phase = "marshalled" => JEq(out, last.value)
    ELSE phase = "error"

(***************************************************************************)
(* C6  When an operation fails, what the operations before it did stays    *)
(* visible in the node: the node shows the document as it was when the     *)
(* failing operation started (or as the failing operation left it).        *)
(***************************************************************************)
NoRollback ==
  phase = "error" /\ last # NoOp =>
    JEq(MarshalJSON(n), before) \/ JEq(MarshalJSON(n), MarshalJSON(pd))

(***************************************************************************)
(* C7  The copy counter starts at 0 and grows by the encoded size of       *)
(* every value a copy duplicates; a copy that takes it over a limit > 0    *)
(* fails with the size error without inserting its value, and nothing      *)
(* runs after it; with limit 0 no copy fails for size.                     *)
(***************************************************************************)
\* one iteration of the loop of Node.Patch counts what it copies
CopyCounts ==
  InLoop =>
    IF last'.op = "copy"
    THEN \A g \in {JAt(MarshalJSON(pd), last'.from, options.SupportNegativeIndices)} :
           /\ acc' \in {acc, acc + (IF g.ok THEN EncLen(g.v) ELSE 0)}
           /\ err' \in {"nil", "AccumulatedCopySizeError"}
                => g.ok /\ acc' = acc + EncLen(g.v)
    ELSE acc' = acc

CopyBudget ==
  /\ [](phase = "run" /\ last = NoOp => acc = 0)
  /\ [][CopyCounts]_vars
  /\ [](options.AccumulatedCopySizeLimit > 0
          /\ acc > options.AccumulatedCopySizeLimit
        => /\ last.op = "copy" /\ err = "AccumulatedCopySizeError"
           /\ phase = "error" /\ JEq(MarshalJSON(pd), before))
  /\ [](err = "AccumulatedCopySizeError"
        => /\ options.AccumulatedCopySizeLimit > 0
           /\ acc > options.AccumulatedCopySizeLimit)
  /\ [][phase # "error"]_vars

\* a second copy took the counter over the limit
CopyBudgetWitness ==
  /\ phase = "error" /\ err = "AccumulatedCopySizeError" /\ last.op = "copy"
  /\ i = 2 /\ acc > options.AccumulatedCopySizeLimit
  /\ before # MarshalJSON(NewNode(src))

(***************************************************************************)
(* C8  With an identity key, an object-vs-object comparison that finds     *)
(* the key on both sides with unequal non-null values emits exactly one    *)
(* replace at that object's path ("" at the root) carrying the whole       *)
(* destination object, and nothing for the object's fields.                *)
(***************************************************************************)
HasID(j, id) == id \in JKeys(j) /\ ~isNullRaw(JVal(j, id))

IDMismatch(s, d, id) ==
  HasID(s, id) /\ HasID(d, id) /\ ~JEq(JVal(s, id), JVal(d, id))

IDMatch(s, d, id) ==
  HasID(s, id) /\ HasID(d, id) /\ JEq(JVal(s, id), JVal(d, id))

IDKeyShortCircuit ==
  phase = "diffed" /\ IDKey # <<>> /\ IsObjectPair =>
    /\ IDMismatch(src, dst, IDKey)
         => res = "ok" /\ patch = <<Operation("replace", <<>>, <<>>, dst)>>
    /\ \A k \in JKeys(src) \cap JKeys(dst) :
         (/\ IDMatch(src, dst, IDKey)
          /\ JVal(src, k).t = "obj" /\ JVal(dst, k).t = "obj"
          /\ IDMismatch(JVal(src, k), JVal(dst, k), IDKey))
         => /\ res = "ok"
            /\ SelectSeq(patch, LAMBDA o : Under(Path(<<encodePatchKey(k)>>), o.path))
                 = <<Operation("replace", Path(<<encodePatchKey(k)>>), <<>>,
                               JVal(dst, k))>>

(***************************************************************************)
(* C9  Without identity key an object-vs-object diff emits a remove for    *)
(* every source key the destination lacks, in source key order, and then,  *)
(* in destination key order, the diff of the two values for a key of both  *)
(* sides and an add for a key of the destination only.  The John/Jane      *)
(* documents give [remove /height, replace /name "Jane"].                  *)
(***************************************************************************)
ExpectedRemoves(nn, tt) ==
  With(SelectSeq(nn.keys, LAMBDA k : k \notin DOMAIN tt.obj), LAMBDA ks :
    [h \in 1..Len(ks) |->
       Operation("remove", Path(<<encodePatchKey(ks[h])>>), <<>>, NoValue)])

\* what the claim allows for the destination keys from the h-th on
RECURSIVE ExpectedTargetOps(_, _, _)
ExpectedTargetOps(nn, tt, h) ==
  IF h > Len(tt.keys) THEN {<<>>}
  ELSE \* the operations for the h-th key go under the pointer of that key
    With(tt.keys[h], LAMBDA k :
    With(Path(<<encodePatchKey(k)>>), LAMBDA at :
      {head \o rest :
         head \in (IF k \in DOMAIN nn.obj
                   THEN {Prefixed(r.c.patch, at) :
                           r \in {x \in diff(nn.obj[k], tt.obj[k], NewCollector, <<>>) :
                                    x.st = "ok"}}
                   ELSE {<<Operation("add", at, <<>>, MarshalJSON(tt.obj[k]))>>}),
         rest \in ExpectedTargetOps(nn, tt, h + 1)}))

ExpectedObjectDiff(s, d) ==
  With(intoContainer(NewNode(s)), LAMBDA nn :
  With(intoContainer(NewNode(d)), LAMBDA tt :
    {ExpectedRemoves(nn, tt) \o t : t \in ExpectedTargetOps(nn, tt, 1)}))

ObjectDiffOrder ==
  /\ phase = "diffed" /\ IDKey = <<>> /\ IsObjectPair /\ ~JEq(src, dst)
       => res = "ok" /\ patch \in ExpectedObjectDiff(src, dst)
  /\ phase = "diffed" /\ IDKey = <<>> /\ src = ExampleSrc /\ dst = ExampleDst
       => patch = <<Operation("remove", <<"/", "h", "e", "i", "g", "h", "t">>,
                              <<>>, NoValue),
                    Operation("replace", <<"/", "n", "a", "m", "e">>, <<>>,
                              Str(<<"J", "a", "n", "e">>))>>

(***************************************************************************)
(* C10  Escaping round trip: decodePatchKey(encodePatchKey(key)) = key     *)
(* for every key, and the encoded token holds no "/"; a/c encodes to a~1c  *)
(* and a~c to a~0c.                                                        *)
(***************************************************************************)
EscapingRoundTrip ==
  /\ phase \in {"encoded", "decoded"} => ~Contains(token, "/")
  /\ phase = "decoded" => decoded = key
  /\ phase \in {"encoded", "decoded"} /\ key = <<"a", "/", "c">>
       => token = <<"a", "~", "1", "c">>
  /\ phase \in {"encoded", "decoded"} /\ key = <<"a", "~", "c">>
       => token = <<"a", "~", "0", "c">>

\* a key holding the sequence "~1" and a "/" went through both functions
EscapingWitness ==
  /\ phase = "decoded" /\ key = <<"~", "1", "/">>
  /\ token = <<"~", "0", "1", "~", "1">> /\ decoded = key

(***************************************************************************)
(* Where the loop of Node.Patch stands right after an operation ran.       *)
(***************************************************************************)
JustStepped ==
  last # NoOp /\ (phase = "run" \/ (phase \in {"error", "panic"} /\ i <= nops))

\* the tokens of a pointer before its last one, and the last one
FrontTokens(pointer) ==
  With(Tail(Split(pointer)), LAMBDA t : SubSeq(t, 1, Len(t) - 1))

LastToken(pointer) == With(Split(pointer), LAMBDA t : t[Len(t)])

\* the container a pointer's last token is looked up in
ParentAt(j, pointer, neg) ==
  IF pointer = <<>> THEN [ok |-> FALSE, v |-> NoValue]
  ELSE JGet(j, FrontTokens(pointer), neg)

\* the pointer names an index outside the array, at or past its end or
\* (where negative is TRUE) before its start
IndexOutOfRange(j, pointer, neg, negative) ==
  With(ParentAt(j, pointer, neg), LAMBDA p :
  With(Atoi(LastToken(pointer)), LAMBDA a :
    /\ p.ok /\ p.v.t = "arr" /\ a.ok
    /\ a.v >= Len(p.v.m) \/ (negative /\ a.v < 0 - Len(p.v.m))))

\* the pointer names a key the object does not have
KeyAbsent(j, pointer, neg) ==
  With(ParentAt(j, pointer, neg), LAMBDA p :
    /\ p.ok /\ p.v.t = "obj"
    /\ decodePatchKey(LastToken(pointer)) \notin JKeys(p.v))

\* what the claim says of a remove whose target is absent
RemoveAbsentOutcome ==
  /\ JEq(MarshalJSON(pd), before)
  /\ IF options.AllowMissingPathOnRemove
     THEN phase = "run" /\ err = "nil"
     ELSE /\ phase = "error"
          /\ err = IF KeyAbsent(before, last.path, options.SupportNegativeIndices)
                   THEN "ErrMissing" ELSE "ErrInvalidIndex"

(***************************************************************************)
(* C11 as stated: a remove of an array index >= len or below -len, or of   *)
(* an object key that is not there, fails by default with InvalidIndex /   *)
(* Missing and leaves the document unchanged; with                         *)
(* AllowMissingPathOnRemove it succeeds, leaves the document unchanged     *)
(* and the patch goes on.                                                  *)
(***************************************************************************)
RemoveAbsentAsStated ==
  /\ JustStepped /\ last.op = "remove"
  /\ \/ IndexOutOfRange(before, last.path, options.SupportNegativeIndices, TRUE)
     \/ KeyAbsent(before, last.path, options.SupportNegativeIndices)
  => RemoveAbsentOutcome

(***************************************************************************)
(* C11 The same, the index below -len counting as an absent target only    *)
(* where negative indices are supported; where they are not, every         *)
(* negative index fails with InvalidIndex and leaves the document          *)
(* unchanged, AllowMissingPathOnRemove or not.                             *)
(***************************************************************************)
RemoveAbsent ==
  JustStepped /\ last.op = "remove" =>
    /\ \/ IndexOutOfRange(before, last.path, options.SupportNegativeIndices,
                          options.SupportNegativeIndices)
       \/ KeyAbsent(before, last.path, options.SupportNegativeIndices)
       => RemoveAbsentOutcome
    /\ /\ ~options.SupportNegativeIndices
       /\ IndexOutOfRange(before, last.path, FALSE, TRUE)
       /\ Atoi(LastToken(last.path)).v < 0
       => phase = "error" /\ err = "ErrInvalidIndex" /\ JEq(MarshalJSON(pd), before)

\* a second remove found its target absent and the patch went on
RemoveAbsentWitness ==
  /\ phase = "run" /\ i = 3 /\ last.op = "remove" /\ err = "nil"
  /\ options.AllowMissingPathOnRemove
  /\ \/ IndexOutOfRange(before, last.path, TRUE, TRUE)
     \/ KeyAbsent(before, last.path, TRUE)
  /\ before # MarshalJSON(NewNode(src))

(***************************************************************************)
(* Documents rewritten at a pointer, stated on the texts.                  *)
(***************************************************************************)
RECURSIVE JPut(_, _, _, _)
\* j with the value the tokens lead to replaced by v
JPut(j, tokens, neg, v) ==
  IF tokens = <<>> THEN v
  ELSE IF j.t = "obj"
  THEN Obj([x \in 1..Len(j.m) |->
              IF j.m[x].k = decodePatchKey(tokens[1])
              THEN Member(j.m[x].k, JPut(j.m[x].v, Tail(tokens), neg, v))
              ELSE j.m[x]])
  ELSE With(Atoi(tokens[1]), LAMBDA a :
         With(IF a.v < 0 /\ neg THEN a.v + Len(j.m) ELSE a.v, LAMBDA idx :
           Arr([x \in 1..Len(j.m) |->
                  IF x = idx + 1 THEN JPut(j.m[x], Tail(tokens), neg, v)
                  ELSE j.m[x]])))

\* the last token of the pointer is a negative index into an array of j
NegativeIndex(j, pointer, neg) ==
  With(ParentAt(j, pointer, neg), LAMBDA p :
  With(Atoi(LastToken(pointer)), LAMBDA a :
    p.ok /\ p.v.t = "arr" /\ a.ok /\ a.v < 0))

\* the elements of m after op has acted at the 0-based position pos
ActedAt(m, op, pos) ==
  IF op.op = "remove" THEN SubSeq(m, 1, pos) \o SubSeq(m, pos + 2, Len(m))
  ELSE IF op.op = "replace" THEN [m EXCEPT ![pos + 1] = op.value]
  ELSE IF op.op = "add" THEN SubSeq(m, 1, pos) \o <<op.value>> \o SubSeq(m, pos + 1, Len(m))
  ELSE m

\* what the claim says of op at index -N of the array m that is the parent
\* of op.path in the document j
AtLenMinusN(j, op, m, N) ==
  /\ op.op = "test" /\ m[Len(m) - N + 1].t = "lit" /\ ~isNullRaw(op.value)
     => (err = "nil") = JEq(m[Len(m) - N + 1], op.value)
  /\ op.op # "test" => err = "nil"
  /\ JEq(MarshalJSON(pd),
         JPut(j, FrontTokens(op.path), TRUE, Arr(ActedAt(m, op, Len(m) - N))))

(***************************************************************************)
(* C12 With SupportNegativeIndices, the index token -N (1 <= N <= len)     *)
(* addresses position len - N of the array as it is before the operation,  *)
(* in get (test), replace, remove and add alike; without it, every         *)
(* negative index fails with InvalidIndex.                                 *)
(***************************************************************************)
NegativeIndices ==
  /\ JustStepped /\ last.op \in {"add", "remove", "replace", "test"}
  /\ NegativeIndex(before, last.path, options.SupportNegativeIndices)
  /\ ~options.EnsurePathExistsOnAdd
  => IF options.SupportNegativeIndices
     THEN \A m \in {ParentAt(before, last.path, TRUE).v.m} :
          \A N \in {0 - Atoi(LastToken(last.path)).v} :
            N <= Len(m) => AtLenMinusN(before, last, m, N)
     ELSE phase = "error" /\ err = "ErrInvalidIndex"

\* the pointer leads to the literal null
HoldsNull(j, pointer, neg) ==
  With(JAt(j, pointer, neg), LAMBDA g : g.ok /\ g.v = Lit(nullLit))

\* the last token of the pointer names no member of the container the
\* tokens before it lead to
Absent(j, pointer, neg) ==
  IndexOutOfRange(j, pointer, neg, neg) \/ KeyAbsent(j, pointer, neg)

(***************************************************************************)
(* C13 A test whose expected value is null or not given succeeds whenever  *)
(* the container of its path resolves and the last key or index is absent  *)
(* or holds null; a test with a non-null expected value against an absent  *)
(* or null target fails, and the apply ends with that error.               *)
(***************************************************************************)
TestNullAbsent ==
  /\ JustStepped /\ last.op = "test" /\ last.path # <<>>
  /\ \/ Absent(before, last.path, options.SupportNegativeIndices)
     \/ HoldsNull(before, last.path, options.SupportNegativeIndices)
  => IF isNullRaw(last.value) THEN phase = "run" /\ err = "nil"
     ELSE phase = "error"

(***************************************************************************)
(* Places an operation writes at, and how two places lie.                  *)
(***************************************************************************)
Writes(op) ==
  IF op.op \in {"add", "remove", "replace", "copy"} THEN {op.path}
  ELSE IF op.op = "move" THEN {op.from, op.path}
  ELSE {}

StrictlyUnder(place, path) == path # place /\ Under(place, path)

Unrelated(a, b) == ~Under(a, b) /\ ~Under(b, a)

ValueAt(node, pointer) ==
  JAt(MarshalJSON(node), pointer, options.SupportNegativeIndices)

\* the value a successful add or copy at op.path has put into the document j
Inserted(j, op) ==
  With(ParentAt(j, op.path, options.SupportNegativeIndices), LAMBDA p :
  With(Atoi(LastToken(op.path)), LAMBDA a :
    IF p.v.t = "obj" THEN JVal(p.v, decodePatchKey(LastToken(op.path)))
    ELSE IF LastToken(op.path) = <<"-">> THEN p.v.m[Len(p.v.m)]
    ELSE p.v.m[a.v + 1]))

\* after a successful copy the value at path equals the value that was at
\* from (paths ending in a negative index left aside)
CopyEqualsSource ==
  /\ JustStepped /\ last.op = "copy" /\ err = "nil"
  /\ ~NegativeIndex(before, last.path, options.SupportNegativeIndices)
  => \A g \in {JAt(before, last.from, options.SupportNegativeIndices)} :
       g.ok /\ JEq(Inserted(MarshalJSON(pd), last), g.v)

\* an operation that writes only below place leaves the value at other
LeavesOther(place, other) ==
  (Writes(last') # {} /\ \A w \in Writes(last') : StrictlyUnder(place, w))
  => ValueAt(pd', other) = ValueAt(pd, other)

CopyLeavesOtherAsStated ==
  InLoop => \A x \in 1..Len(copies) :
              /\ LeavesOther(copies[x].from, copies[x].path)
              /\ LeavesOther(copies[x].path, copies[x].from)

CopyLeavesOther ==
  InLoop => \A x \in 1..Len(copies) :
              Unrelated(copies[x].from, copies[x].path)
              => /\ LeavesOther(copies[x].from, copies[x].path)
                 /\ LeavesOther(copies[x].path, copies[x].from)

(***************************************************************************)
(* C14 as stated: after a successful copy the value at path equals the     *)
(* value at from, and every later operation that writes below one of the   *)
(* two places leaves the value at the other as it was.                     *)
(***************************************************************************)
CopyNeverAliasesAsStated == []CopyEqualsSource /\ [][CopyLeavesOtherAsStated]_vars

(***************************************************************************)
(* C14 The same for a copy whose two places do not lie one under the       *)
(* other: the copy is a Node of its own, so what is written below one      *)
(* place never shows at the other.                                         *)
(***************************************************************************)
CopyNeverAliases == []CopyEqualsSource /\ [][CopyLeavesOther]_vars

\* after a copy, an add below the place of the copy changed the document
CopyNeverAliasesWitness ==
  /\ Len(copies) = 1 /\ Unrelated(copies[1].from, copies[1].path)
  /\ phase = "run" /\ last.op = "add" /\ err = "nil"
  /\ StrictlyUnder(copies[1].path, last.path)
  /\ before # MarshalJSON(pd)
  /\ ValueAt(pd, copies[1].from).ok /\ ValueAt(pd, copies[1].path).ok
  /\ ValueAt(pd, copies[1].from) # ValueAt(pd, copies[1].path)

\* the patches a second call can be given that end it at once or after one
\* operation
ShortPatches == {<<>>} \cup {<<op>> : op \in OpSet}

\* the ways one call with the patches p1 and p2 on end can end
OneCall(p1, p2) == NodePatch(NewNode(src), p1 \o p2, options)

(***************************************************************************)
(* C15 Calling Node.Patch with P1 and then with P2 succeeds exactly when   *)
(* one call with P1 followed by P2 succeeds, and the two leave the same    *)
(* document (no copy limit).                                               *)
(***************************************************************************)
TwoCallsAsOne ==
  options.AccumulatedCopySizeLimit = 0 /\ ~fromDiff =>
    /\ Len(done) = 2 /\ phase = "returned"
       => \E r \in OneCall(done[1], done[2]) :
            r.st = "returned" /\ JEq(MarshalJSON(r.n), MarshalJSON(n))
    /\ Len(done) = 2 /\ phase \in {"error", "panic"}
       => \E r \in OneCall(done[1], done[2]) : r.st # "returned"
    /\ Len(done) = 1 /\ phase = "panic" /\ i > nops
       => \A p2 \in ShortPatches : \A r \in OneCall(done[1], p2) : r.st # "returned"

(***************************************************************************)
(* A case of TestFindChildren has run: the container nodes of the          *)
(* document in document order, each with its pointer, and the pointers the *)
(* case requires in the result.                                            *)
(***************************************************************************)
Containers == FindChildren(src, <<>>, NewOptions)

Required == {want[x].Path : x \in 1..Len(want)}

\* every predicate of the case expects null (or gives no value)
NullOnly == tests # <<>> /\ \A x \in 1..Len(tests) : isNullRaw(tests[x].Value)

\* the pointer leads to null from the node j, or leads nowhere
NullOrNowhere(j, pointer) ==
  With(JAt(j, pointer, TRUE), LAMBDA g : ~g.ok \/ isNullRaw(g.v))

\* the predicate holds at the node j in that its pointer leads to a value
\* there: to null where null is expected, to an equal value otherwise
HoldsWhereResolved(j, pv) ==
  With(Resolved(j, pv.Path, NewOptions), LAMBDA r :
    /\ r.ok
    /\ IF isNullRaw(pv.Value) THEN isNullRaw(MarshalJSON(r.v))
       ELSE JEq(MarshalJSON(r.v), pv.Value))

NoNullExpected == \A x \in 1..Len(tests) : ~isNullRaw(tests[x].Value)

\* a is a proper prefix of b
ProperPrefix(a, b) == Len(a) < Len(b) /\ SubSeq(b, 1, Len(a)) = a

(***************************************************************************)
(* C17 FindChildren visits every container node in pre-order document      *)
(* order, records each node at which all predicates hold with its absolute *)
(* pointer, and keeps descending into a recorded node: for every case of   *)
(* TestFindChildren (without null predicates, which are C16's) such a walk *)
(* gives the result the case requires, pointer by pointer and value by     *)
(* value, and a recorded node comes before the recorded nodes below it.    *)
(***************************************************************************)
PreOrderRecords ==
  phase = "found" /\ NoNullExpected =>
    /\ Len(found) = Len(want)
    /\ \A x \in 1..Len(found) :
         /\ found[x].Path = want[x].Path
         /\ JEq(found[x].Value, want[x].Value)
         /\ JAt(src, found[x].Path, TRUE) = [ok |-> TRUE, v |-> found[x].Value]
    /\ \A x, h \in 1..Len(want) :
         ProperPrefix(want[x].Path, want[h].Path) => x < h

\* a recorded node with recorded nodes below it, the ancestor first
PreOrderRecordsWitness ==
  /\ phase = "found" /\ NoNullExpected /\ Len(found) = 5 /\ Len(want) = 5
  /\ \A x \in 2..5 : ProperPrefix(found[1].Path, found[x].Path)
  /\ found[1].Path # <<>>

\* the identity key does not decide the comparison of the objects s and d:
\* s lacks it, or holds null for it, or both hold equal values
IDKeyUndecided(s, d, id) ==
  id \notin JKeys(s) \/ isNullRaw(JVal(s, id)) \/ IDMatch(s, d, id)

\* no member of s is an object that is an object in d as well
NoMemberObjects(s, d) ==
  \A k \in JKeys(s) \cap JKeys(d) : ~(JVal(s, k).t = "obj" /\ JVal(d, k).t = "obj")

\* no member that is an object on both sides is decided by the identity key
NoMemberDecided(s, d, id) ==
  \A k \in JKeys(s) \cap JKeys(d) :
    JVal(s, k).t = "obj" /\ JVal(d, k).t = "obj"
    => IDKeyUndecided(JVal(s, k), JVal(d, k), id)
       /\ NoMemberObjects(JVal(s, k), JVal(d, k))

(***************************************************************************)
(* C18 With an identity key, when the source object lacks the key or holds *)
(* null for it (or both sides hold equal values), the object-vs-object     *)
(* diff completes without error and emits exactly what it emits without    *)
(* the key.                                                                *)
(***************************************************************************)
IDKeyFallsThrough ==
  /\ phase = "diffed" /\ IDKey # <<>> /\ IsObjectPair
  /\ IDKeyUndecided(src, dst, IDKey) /\ NoMemberDecided(src, dst, IDKey)
  => \A g \in {Diff(src, dst, <<>>)} :
       (\A r \in g : r.st = "ok")
       => res = "ok" /\ patch \in {r.patch : r \in g}

Classifications == {"eRaw", "eOther", "eDoc", "eAry"}

\* a step leaves a classified node with its classification
StaysClassified == n.which # "eRaw" => n'.which = n.which

(***************************************************************************)
(* C19 as stated: a Node is always in exactly one of the states Unparsed,  *)
(* Scalar, Object, Array, and once it is classified no operation on it     *)
(* (Patch and its operations, MarshalJSON, UnmarshalJSON) makes it         *)
(* Unparsed again or changes its classification.                           *)
(***************************************************************************)
ClassifiedForGoodAsStated ==
  [](n.which \in Classifications) /\ [][StaysClassified]_vars

(***************************************************************************)
(* C19 The same for every operation but UnmarshalJSON, which gives the     *)
(* node a new text and makes it Unparsed again whatever it was.            *)
(***************************************************************************)
ClassifiedForGood ==
  /\ [](n.which \in Classifications)
  /\ [][IF phase' = "unmarshalled" THEN n'.which = "eRaw" ELSE StaysClassified]_vars

\* a node that Node.Patch classified as an object, changed and returned was
\* made raw again by UnmarshalJSON
ClassifiedForGoodWitness ==
  /\ phase = "unmarshalled" /\ n.which = "eRaw" /\ n.keys # <<>>
  /\ Len(done) = 1 /\ Len(done[1]) >= 1 /\ last.op = "add"

\* the text an operation's value is stored as
Stored(v) == IF v = NoValue THEN LNull ELSE v

\* the members of an object after add of key k with value v
AddedMember(m, k, v) ==
  IF \E x \in 1..Len(m) : m[x].k = k
  THEN [x \in 1..Len(m) |-> IF m[x].k = k THEN Member(k, v) ELSE m[x]]
  ELSE Append(m, Member(k, v))

\* the document j with the container at the front of pointer given the
\* members m
WithMembers(j, pointer, neg, m) ==
  With(ParentAt(j, pointer, neg).v, LAMBDA p :
    JPut(j, FrontTokens(pointer), neg, IF p.t = "obj" THEN Obj(m) ELSE Arr(m)))

\* what the claim says of the add last, whose path leads into the
\* container p of the document before
AddOutcome(p) ==
  With(LastToken(last.path), LAMBDA t :
  With(Atoi(t), LAMBDA a :
    IF p.t = "obj"
    THEN /\ err = "nil"
         /\ MarshalJSON(pd)
              = WithMembers(before, last.path, options.SupportNegativeIndices,
                            AddedMember(p.m, decodePatchKey(t), Stored(last.value)))
    ELSE IF t = <<"-">>
    THEN /\ err = "nil"
         /\ MarshalJSON(pd)
              = WithMembers(before, last.path, options.SupportNegativeIndices,
                            Append(p.m, Stored(last.value)))
    ELSE IF a.ok /\ a.v >= 0 /\ a.v <= Len(p.m)
    THEN /\ err = "nil"
         /\ MarshalJSON(pd)
              = WithMembers(before, last.path, options.SupportNegativeIndices,
                            SubSeq(p.m, 1, a.v) \o <<Stored(last.value)>>
                              \o SubSeq(p.m, a.v + 1, Len(p.m)))
    ELSE a.ok /\ a.v > Len(p.m)
         => phase = "error" /\ err = "ErrInvalidIndex" /\ MarshalJSON(pd) = before))

(***************************************************************************)
(* C20 add: on an object an existing key keeps its place in the key order  *)
(* and takes the value, a new key goes to the end; on an array add at      *)
(* index i with 0 <= i <= len, or at "-", inserts the value (at the end    *)
(* for "-") and moves the elements from i on up by one; an index > len     *)
(* fails with InvalidIndex; the encoding has the members in that order.    *)
(***************************************************************************)
AddSemantics ==
  JustStepped /\ last.op = "add" =>
    \A g \in {ParentAt(before, last.path, options.SupportNegativeIndices)} :
      g.ok /\ g.v.t \in {"obj", "arr"} => AddOutcome(g.v)

\* an add took the value of a key that is not the last of its object
AddSemanticsWitness ==
  /\ phase = "run" /\ last.op = "add" /\ err = "nil" /\ last.path # <<>>
  /\ \E g \in {ParentAt(before, last.path, options.SupportNegativeIndices)} :
       /\ g.ok /\ g.v.t = "obj" /\ Len(g.v.m) >= 2
       /\ g.v.m[1].k = decodePatchKey(LastToken(last.path))
       /\ g.v.m[1].v # Stored(last.value)
  /\ MarshalJSON(pd) # before

\* the documents a remove of from and then an add of v at path make of the
\* document j, where both succeed
RemoveThenAdd(j, from, path, v) ==
  {MarshalJSON(r.n) :
     r \in {x \in NodePatch(NewNode(j),
                            <<Operation("remove", from, <<>>, NoValue),
                              Operation("add", path, <<>>, v)>>,
                            options) : x.st = "returned"}}

\* the error of a move whose from does not resolve in the document j
FromError(j, from) ==
  With(ParentAt(j, from, options.SupportNegativeIndices), LAMBDA p :
    IF p.ok /\ p.v.t = "arr"
    THEN IF Atoi(LastToken(from)).ok THEN "ErrInvalidIndex" ELSE "NumError"
    ELSE "ErrMissing")

\* a successful move leaves what remove and add leave; a move whose from
\* does not resolve fails and changes nothing
MoveAsRemoveAdd(g) ==
  /\ err = "nil"
     => /\ g.ok
        /\ \E d \in RemoveThenAdd(before, last.from, last.path, g.v) :
             JEq(MarshalJSON(pd), d)
  /\ ~g.ok => phase = "error" /\ JEq(MarshalJSON(pd), before)

(***************************************************************************)
(* C21 as stated: move reads the value at from, removes it and inserts it  *)
(* at path, path being resolved in the document after the removal: a       *)
(* successful move leaves the document a remove of from followed by an add *)
(* of the old value at path leaves, and a move whose from does not resolve *)
(* fails with Missing and leaves the document unchanged.                   *)
(***************************************************************************)
MoveTwoPhaseAsStated ==
  JustStepped /\ last.op = "move" =>
    \A g \in {JAt(before, last.from, options.SupportNegativeIndices)} :
      /\ MoveAsRemoveAdd(g)
      /\ ~g.ok => err = "ErrMissing"

(***************************************************************************)
(* C21 The same, the error of a move whose from does not resolve being     *)
(* Missing where a container on the way or the object key is absent, and   *)
(* the error of the index (InvalidIndex for an index out of range, the     *)
(* number error for a token that is no number) where from ends in an       *)
(* array.                                                                  *)
(***************************************************************************)
MoveTwoPhase ==
  JustStepped /\ last.op = "move" =>
    \A g \in {JAt(before, last.from, options.SupportNegativeIndices)} :
      /\ MoveAsRemoveAdd(g)
      /\ ~g.ok => err = FromError(before, last.from)

\* a move inside an array went through: the element was taken out and put
\* in at the place path names after the removal
MoveTwoPhaseWitness ==
  /\ phase = "run" /\ last.op = "move" /\ err = "nil"
  /\ ParentAt(before, last.from, options.SupportNegativeIndices).v.t = "arr"
  /\ last.path # last.from /\ ~JEq(MarshalJSON(pd), before)

RECURSIVE GapOnWay(_, _)
\* walking the tokens from j comes to an object without the key, or to an
\* array without the index, before the tokens end
GapOnWay(j, tokens) ==
  IF tokens = <<>> THEN FALSE
  ELSE IF j.t = "obj"
  THEN IF decodePatchKey(tokens[1]) \in JKeys(j)
       THEN GapOnWay(JVal(j, decodePatchKey(tokens[1])), Tail(tokens))
       ELSE TRUE
  ELSE IF j.t = "arr"
  THEN With(Atoi(tokens[1]), LAMBDA a :
         IF ~a.ok \/ a.v < 0 THEN FALSE
         ELSE IF a.v < Len(j.m) THEN GapOnWay(j.m[a.v + 1], Tail(tokens))
         ELSE TRUE)
  ELSE FALSE

\* no token of the pointer is a negative number
NoNegativeToken(pointer) ==
  \A x \in 2..Len(Split(pointer)) :
    With(Atoi(Split(pointer)[x]), LAMBDA a : ~(a.ok /\ a.v < 0))

RECURSIVE Leaves(_, _)
\* the scalars of the document j, each with its pointer (abs leads to j)
Leaves(j, abs) ==
  IF j.t = "lit" THEN {PV(abs, j)}
  ELSE IF j.t = "obj"
  THEN UNION {Leaves(j.m[x].v, abs \o <<"/">> \o encodePatchKey(j.m[x].k)) :
                x \in 1..Len(j.m)}
  ELSE UNION {Leaves(j.m[x], abs \o <<"/">> \o Itoa(x - 1)) : x \in 1..Len(j.m)}

\* the add last has put its value at its path
AddedAtPath ==
  /\ ParentAt(MarshalJSON(pd), last.path, options.SupportNegativeIndices).ok
  /\ JEq(Inserted(MarshalJSON(pd), last), Stored(last.value))

(***************************************************************************)
(* C22 With EnsurePathExistsOnAdd, an add whose path misses a segment on   *)
(* the way creates the missing segments (arrays padded with null) and      *)
(* succeeds: the value is then at the path and every scalar the document   *)
(* held is where it was; without the option the add fails with Missing     *)
(* and changes nothing.                                                    *)
(***************************************************************************)
EnsurePathOnAdd ==
  /\ JustStepped /\ last.op = "add" /\ last.path # <<>>
  /\ NoNegativeToken(last.path) /\ GapOnWay(before, FrontTokens(last.path))
  => IF options.EnsurePathExistsOnAdd
     THEN /\ phase = "run" /\ err = "nil"
          /\ AddedAtPath
          /\ \A leaf \in Leaves(before, <<>>) :
               JAt(MarshalJSON(pd), leaf.Path, options.SupportNegativeIndices)
                 = [ok |-> TRUE, v |-> leaf.Value]
     ELSE phase = "error" /\ err = "ErrMissing" /\ MarshalJSON(pd) = before

RECURSIVE KeyOrderKept(_)
\* in every object of the tree the key list holds the keys of the map, each
\* once (a node still raw is parsed first, as marshalling parses it)
KeyOrderKept(node) ==
  IF node = NilNode THEN TRUE
  ELSE With(intoContainer(node), LAMBDA c :
         IF c.which = "eDoc"
         THEN /\ \A x, h \in 1..Len(c.keys) : c.keys[x] = c.keys[h] => x = h
              /\ {c.keys[x] : x \in 1..Len(c.keys)} = DOMAIN c.obj
              /\ \A k \in DOMAIN c.obj : KeyOrderKept(c.obj[k])
         ELSE IF c.which = "eAry"
         THEN \A x \in 1..Len(c.ary) : KeyOrderKept(c.ary[x])
         ELSE TRUE)

RECURSIVE MembersOnce(_)
\* no object of the text has two members of one name
MembersOnce(j) ==
  IF j.t = "lit" THEN TRUE
  ELSE IF j.t = "arr" THEN \A x \in 1..Len(j.m) : MembersOnce(j.m[x])
  ELSE /\ \A x, h \in 1..Len(j.m) : j.m[x].k = j.m[h].k => x = h
       /\ \A x \in 1..Len(j.m) : MembersOnce(j.m[x].v)

(***************************************************************************)
(* C23 After parsing any JSON object and after any sequence of add,        *)
(* replace, remove, move and copy, the key list of every Object node holds *)
(* exactly the keys of its map, each once, and marshal emits every member  *)
(* once.                                                                   *)
(***************************************************************************)
KeyOrderInvariant ==
  /\ phase \in {"run", "returned", "error", "marshalled"}
     => KeyOrderKept(n) /\ KeyOrderKept(pd)
  /\ phase = "marshalled" => MembersOnce(out)

(***************************************************************************)
(* C24 Each operation is all-or-nothing: when an add, remove, replace,     *)
(* move, copy or test returns an error, the document is structurally what  *)
(* it was just before the operation started.                               *)
(***************************************************************************)
OperationAllOrNothing ==
  /\ JustStepped /\ phase = "error"
  /\ last.op \in {"add", "remove", "replace", "move", "copy", "test"}
  => JEq(MarshalJSON(pd), before)

\* the paths a collector stands at when Node.diff pushes a member's token:
\* the root, an object member, an array element below it
CollectorPaths ==
  {<<>>, Path(<<Ka>>), Path(<<Ka, <<"1">>>>), Path(<<encodePatchKey(Ks)>>)}

CollectorAt(p) == [path |-> p, patch |-> <<>>]

(***************************************************************************)
(* C25 Diff path bookkeeping: for every encoded path token, the empty      *)
(* token of the empty-string key included, pushPathToken(t) followed by    *)
(* popPathToken() restores the collector's previous path.                  *)
(***************************************************************************)
PushPopRestores ==
  phase = "encoded"
  => \A p \in CollectorPaths :
       popPathToken(pushPathToken(CollectorAt(p), token)).path = p

====
